---- MODULE Spec2Model ----
(***************************************************************************)
(* State-machine model of src/algo_ds_complete.py: the sorting and search  *)
(* algorithms, the binary search tree, the heaps, the weighted graph with  *)
(* its shortest-path and ordering algorithms, and the string matchers.     *)
(*                                                                         *)
(* Python lists are sequences; the code's 0-based index i is At(s, i).     *)
(* A call that may raise yields Return(v) or Raise(e); an Optional result  *)
(* is None (the empty tuple) or Some(v) (a 1-tuple).                       *)
(***************************************************************************)
EXTENDS Integers, Sequences, FiniteSets, TLC

VARIABLES
    arr,        \* the list handed to the sorting / searching functions
    results,    \* what each sorting function returned for arr, or NotRun
    target,     \* the value searched for in arr
    found,      \* what each search function returned, or NotRun
    root,       \* BST.root
    lastop,     \* the last BST call: its name, its argument, and for a
                \* delete how many children the removed node had (-1: absent)
    minheap,    \* MinHeap.heap
    minheld,    \* the values pushed on the MinHeap and not yet popped
    maxheap,    \* MaxHeap.heap
    maxheld,    \* the values pushed on the MaxHeap and not yet popped
    graph,      \* Graph.graph: the dict's key order and its adjacency lists
    directed,   \* Graph.directed
    gres,       \* the last graph algorithm run on graph, with its result
    text,       \* the text handed to the string matchers
    pattern,    \* the pattern handed to the string matchers
    matches,    \* what each string matcher returned, or NotRun
    palin,      \* what longest_palindromic_substring returned for text, or NotRun
    stack_items, \* Stack.items
    queue_items, \* Queue.items
    stackheld,  \* the items pushed on the Stack and not yet returned by pop
    queueheld,  \* the items enqueued on the Queue and not yet returned by dequeue
    pushed,     \* how many items have been handed to push / enqueue so far
    sqop,       \* the last Stack / Queue call: its name, what it returned and
                \* the items and size() of the container before the call
    table,      \* HashTable.table
    size,       \* HashTable.size
    absmap,     \* the key-to-value map the put / remove calls so far describe
    hop,        \* the last HashTable call: its name, its key, what it returned
                \* and whether the key was present before the call
    coins,      \* the denominations handed to coin_change
    amount,     \* the amount handed to coin_change
    change,     \* what coin_change returned, or NotRun
    queensN,    \* the n handed to n_queens
    queens,     \* what n_queens returned, or NotRun
    palin_steps, \* the (start, end) longest_palindromic_substring held after
                \* each centre it scanned, or NotRun
    freq,       \* the frequency table handed to huffman_coding, as the
                \* (symbol, weight) items of the dict in insertion order
    codes,      \* what huffman_coding returned, or NotRun
    act_start,  \* the start list handed to activity_selection
    act_finish, \* the finish list handed to activity_selection
    selected,   \* what activity_selection returned, or NotRun
    bubble_run  \* the passes of a bubble_sort call on arr, or NotRun

sortVars == <<arr, results>>
searchVars == <<target, found>>
bstVars == <<root, lastop>>
heapVars == <<minheap, minheld, maxheap, maxheld>>
graphVars == <<graph, directed, gres>>
stringVars == <<text, pattern, matches, palin, palin_steps>>
stackVars == <<stack_items, queue_items, stackheld, queueheld, pushed, sqop>>
hashVars == <<table, size, absmap, hop>>
puzzleVars == <<coins, amount, change, queensN, queens>>
greedyVars == <<freq, codes, act_start, act_finish, selected>>
restVars == <<stackVars, hashVars, puzzleVars, greedyVars, bubble_run>>
vars == <<sortVars, searchVars, bstVars, heapVars, graphVars, stringVars, restVars>>

\* ---------------------------------------------------------------- bounds
MaxLen == 3
MaxSortedLen == 11
Values == {-1, 0, 1, 2}
MaxNodes == 4
BSTValues == {1, 2, 3}
MaxHeapLen == 4
HeapValues == {-1, 0, 2}
MaxEdges == 2
MaxText == 4
MaxPattern == 3
MaxPushes == 4
ItemValues == {0, 1}
MaxSize == 2
MaxEntries == 3
HashKeys == {-1, 0, 1, 2}
HashValues == {7, 8}
MaxCoins == 3
MaxAmount == 11
Denominations == {1, 2, 3, 5}
QueenSizes == 1..5
MaxSymbols == 3
Symbols == {"a", "b", "c"}
SymbolWeights == {1, 2}
MaxActivities == 3
Times == 0..2
Alphabet == {"a", "b"}
Vertices == {1, 2, 3}
Weights == {-1, 0, 2}

\* ------------------------------------------------------- Python encodings
Return(v) == [exc |-> "none", ret |-> v]
Raise(e) == [exc |-> e]
NotRun == [exc |-> "notrun"]
None == <<>>
Some(v) == <<v>>

At(s, i) == s[i + 1]
SetAt(s, i, v) == [s EXCEPT ![i + 1] = v]
Swap(s, i, j) == [s EXCEPT ![i + 1] = s[j + 1], ![j + 1] = s[i + 1]]
\* s[lo:hi] for 0 <= lo, clipped at len(s)
Slice(s, lo, hi) ==
    LET h == IF hi > Len(s) THEN Len(s) ELSE hi
    IN  IF lo >= h THEN <<>> ELSE SubSeq(s, lo + 1, h)

SeqsUpTo(S, n) == UNION {[1..k -> S] : k \in 0..n}

\* What each structure is right after construction, for the state machines
\* that leave it alone.
Nil == <<>>
NoneHeld == [v \in HeapValues |-> 0]
SortIdle == arr = <<>> /\ results = <<>>
SearchIdle == target = 0 /\ found = <<>>
NoOp == [op |-> "none", data |-> 0, children |-> -1]
BSTEmpty == root = Nil /\ lastop = NoOp
HeapsEmpty ==
    /\ minheap = <<>> /\ minheld = NoneHeld
    /\ maxheap = <<>> /\ maxheld = NoneHeld
EmptyGraph == [keys |-> <<>>, adj |-> <<>>]
NoRun == [algo |-> "none"]
GraphEmpty == graph = EmptyGraph /\ directed = FALSE /\ gres = NoRun
StringIdle ==
    /\ text = <<>> /\ pattern = <<>> /\ matches = <<>>
    /\ palin = NotRun /\ palin_steps = NotRun
NoCall == [op |-> "none"]
StackQueueEmpty ==
    /\ stack_items = <<>> /\ queue_items = <<>>
    /\ stackheld = {} /\ queueheld = {}
    /\ pushed = 0 /\ sqop = NoCall
HashTableIdle == table = <<>> /\ size = 0 /\ absmap = <<>> /\ hop = NoCall
PuzzleIdle ==
    /\ coins = <<>> /\ amount = 0 /\ change = NotRun
    /\ queensN = 0 /\ queens = NotRun
GreedyIdle ==
    /\ freq = <<>> /\ codes = NotRun
    /\ act_start = <<>> /\ act_finish = <<>> /\ selected = NotRun
BubbleIdle == bubble_run = NotRun
RestIdle ==
    StackQueueEmpty /\ HashTableIdle /\ PuzzleIdle /\ GreedyIdle /\ BubbleIdle

\* ================================================================ sorting
\* bubble_sort: one pass of the inner loop, j in range(0, n - i - 1)
RECURSIVE bubble_pass(_, _, _, _)
bubble_pass(a, j, lim, swapped) ==
    IF j >= lim THEN [arr |-> a, swapped |-> swapped]
    ELSE IF At(a, j) > At(a, j + 1)
         THEN bubble_pass(Swap(a, j, j + 1), j + 1, lim, TRUE)
         ELSE bubble_pass(a, j + 1, lim, swapped)

RECURSIVE bubble_loop(_, _)
bubble_loop(a, i) ==
    IF i >= Len(a) THEN a
    ELSE LET p == bubble_pass(a, 0, Len(a) - i - 1, FALSE)
         IN  IF ~p.swapped THEN p.arr ELSE bubble_loop(p.arr, i + 1)

bubble_sort(a) == bubble_loop(a, 0)

\* selection_sort: index of the first minimum of a[i..n-1]
RECURSIVE selection_min(_, _, _)
selection_min(a, j, min_idx) ==
    IF j >= Len(a) THEN min_idx
    ELSE IF At(a, j) < At(a, min_idx)
         THEN selection_min(a, j + 1, j)
         ELSE selection_min(a, j + 1, min_idx)

RECURSIVE selection_loop(_, _)
selection_loop(a, i) ==
    IF i >= Len(a) THEN a
    ELSE selection_loop(Swap(a, i, selection_min(a, i + 1, i)), i + 1)

selection_sort(a) == selection_loop(a, 0)

\* insertion_sort: the while loop shifting larger elements right
RECURSIVE insertion_shift(_, _, _)
insertion_shift(a, j, key) ==
    IF j >= 0 /\ At(a, j) > key
    THEN insertion_shift(SetAt(a, j + 1, At(a, j)), j - 1, key)
    ELSE SetAt(a, j + 1, key)

RECURSIVE insertion_loop(_, _)
insertion_loop(a, i) ==
    IF i >= Len(a) THEN a
    ELSE insertion_loop(insertion_shift(a, i - 1, At(a, i)), i + 1)

insertion_sort(a) == insertion_loop(a, 1)

\* _merge(left, right)
RECURSIVE merge_loop(_, _, _, _, _)
merge_loop(left, right, i, j, result) ==
    IF i < Len(left) /\ j < Len(right)
    THEN IF At(left, i) <= At(right, j)
         THEN merge_loop(left, right, i + 1, j, Append(result, At(left, i)))
         ELSE merge_loop(left, right, i, j + 1, Append(result, At(right, j)))
    ELSE result \o Slice(left, i, Len(left)) \o Slice(right, j, Len(right))

merge(left, right) == merge_loop(left, right, 0, 0, <<>>)

RECURSIVE merge_sort(_)
merge_sort(a) ==
    IF Len(a) <= 1 THEN a
    ELSE LET mid == Len(a) \div 2
         IN  merge(merge_sort(Slice(a, 0, mid)), merge_sort(Slice(a, mid, Len(a))))

\* quick_sort: [x for x in arr if <test>], in the order of arr
RECURSIVE filter_lt(_, _)
filter_lt(a, pivot) ==
    IF a = <<>> THEN <<>>
    ELSE (IF Head(a) < pivot THEN <<Head(a)>> ELSE <<>>) \o filter_lt(Tail(a), pivot)

RECURSIVE filter_eq(_, _)
filter_eq(a, pivot) ==
    IF a = <<>> THEN <<>>
    ELSE (IF Head(a) = pivot THEN <<Head(a)>> ELSE <<>>) \o filter_eq(Tail(a), pivot)

RECURSIVE filter_gt(_, _)
filter_gt(a, pivot) ==
    IF a = <<>> THEN <<>>
    ELSE (IF Head(a) > pivot THEN <<Head(a)>> ELSE <<>>) \o filter_gt(Tail(a), pivot)

RECURSIVE quick_sort(_)
quick_sort(a) ==
    IF Len(a) <= 1 THEN a
    ELSE LET pivot == At(a, Len(a) \div 2)
         IN  quick_sort(filter_lt(a, pivot)) \o filter_eq(a, pivot)
                \o quick_sort(filter_gt(a, pivot))

\* heapify as it would be if the right child were never looked at
RECURSIVE heapify_ignoring_right(_, _, _)
heapify_ignoring_right(a, n, i) ==
    LET left == 2 * i + 1
        largest == IF left < n /\ At(a, left) > At(a, i) THEN left ELSE i
    IN  IF largest # i THEN heapify_ignoring_right(Swap(a, i, largest), n, largest)
        ELSE a

\* heap_sort: heapify(arr, n, i) sifts a[i] down in the max-heap a[0..n-1]
RECURSIVE heapify(_, _, _)
heapify(a, n, i) ==
    LET left == 2 * i + 1
        right == 2 * i + 2
        l1 == IF left < n /\ At(a, left) > At(a, i) THEN left ELSE i
        largest == IF right < n /\ At(a, right) > At(a, l1) THEN right ELSE l1
    IN  IF largest # i THEN heapify(Swap(a, i, largest), n, largest) ELSE a

RECURSIVE heap_build(_, _)
heap_build(a, i) ==
    IF i < 0 THEN a ELSE heap_build(heapify(a, Len(a), i), i - 1)

RECURSIVE heap_extract(_, _)
heap_extract(a, i) ==
    IF i <= 0 THEN a ELSE heap_extract(heapify(Swap(a, 0, i), i, 0), i - 1)

heap_sort(a) ==
    LET n == Len(a)
    IN  heap_extract(heap_build(a, n \div 2 - 1), n - 1)

\* counting_sort: count[num] += 1 with Python's list indexing, where a
\* negative index -k addresses count[len - k] and any index outside
\* -len..len-1 raises IndexError
\* the maximum as it would be if the first element were taken for it
list_max_first(a) == a[1]

RECURSIVE list_max(_)
list_max(a) ==
    IF Len(a) = 1 THEN a[1]
    ELSE LET m == list_max(Tail(a)) IN IF a[1] >= m THEN a[1] ELSE m

zeros(n) == [i \in 1..(IF n > 0 THEN n ELSE 0) |-> 0]

RECURSIVE counting_tally(_, _, _)
counting_tally(a, k, count) ==
    IF k >= Len(a) THEN Return(count)
    ELSE LET num == At(a, k)
             idx == IF num < 0 THEN Len(count) + num ELSE num
         IN  IF idx < 0 \/ idx >= Len(count) THEN Raise("IndexError")
             ELSE counting_tally(a, k + 1, SetAt(count, idx, At(count, idx) + 1))

\* the expansion as it would be if each counted value were emitted once
RECURSIVE counting_expand_once(_, _, _)
counting_expand_once(count, num, result) ==
    IF num >= Len(count) THEN result
    ELSE counting_expand_once(count, num + 1,
             IF At(count, num) > 0 THEN Append(result, num) ELSE result)

RECURSIVE counting_expand(_, _, _)
counting_expand(count, num, result) ==
    IF num >= Len(count) THEN result
    ELSE counting_expand(count, num + 1,
                         result \o [i \in 1..At(count, num) |-> num])

counting_sort(a) ==
    IF a = <<>> THEN Return(a)
    ELSE LET max_val == list_max(a)
             tally == counting_tally(a, 0, zeros(max_val + 1))
         IN  IF tally.exc # "none" THEN tally
             ELSE Return(counting_expand(tally.ret, 0, <<>>))

\* insertion_sort and merge_sort over elements that carry a sort key and an
\* identity tag and whose comparison operators look at the key alone
RECURSIVE insertion_shift_keyed(_, _, _)
insertion_shift_keyed(a, j, key) ==
    IF j >= 0 /\ At(a, j).key > key.key
    THEN insertion_shift_keyed(SetAt(a, j + 1, At(a, j)), j - 1, key)
    ELSE SetAt(a, j + 1, key)

RECURSIVE insertion_loop_keyed(_, _)
insertion_loop_keyed(a, i) ==
    IF i >= Len(a) THEN a
    ELSE insertion_loop_keyed(insertion_shift_keyed(a, i - 1, At(a, i)), i + 1)

insertion_sort_keyed(a) == insertion_loop_keyed(a, 1)

\* the merge as it would be with a strict comparison, taking from the right
\* list on equal keys
RECURSIVE merge_loop_keyed_strict(_, _, _, _, _)
merge_loop_keyed_strict(left, right, i, j, result) ==
    IF i < Len(left) /\ j < Len(right)
    THEN IF At(left, i).key < At(right, j).key
         THEN merge_loop_keyed_strict(left, right, i + 1, j,
                                      Append(result, At(left, i)))
         ELSE merge_loop_keyed_strict(left, right, i, j + 1,
                                      Append(result, At(right, j)))
    ELSE result \o Slice(left, i, Len(left)) \o Slice(right, j, Len(right))

RECURSIVE merge_loop_keyed(_, _, _, _, _)
merge_loop_keyed(left, right, i, j, result) ==
    IF i < Len(left) /\ j < Len(right)
    THEN IF At(left, i).key <= At(right, j).key
         THEN merge_loop_keyed(left, right, i + 1, j, Append(result, At(left, i)))
         ELSE merge_loop_keyed(left, right, i, j + 1, Append(result, At(right, j)))
    ELSE result \o Slice(left, i, Len(left)) \o Slice(right, j, Len(right))

merge_keyed(left, right) == merge_loop_keyed(left, right, 0, 0, <<>>)

RECURSIVE merge_sort_keyed(_)
merge_sort_keyed(a) ==
    IF Len(a) <= 1 THEN a
    ELSE LET mid == Len(a) \div 2
         IN  merge_keyed(merge_sort_keyed(Slice(a, 0, mid)),
                         merge_sort_keyed(Slice(a, mid, Len(a))))

\* the caller's tagged list: element i of arr with its position as the tag
Tagged(a) == [i \in 1..Len(a) |-> [key |-> a[i], tag |-> i]]

\* ------------------------------------------------ the sorting state machine
IntSorts == {"bubble_sort", "selection_sort", "insertion_sort", "merge_sort",
             "quick_sort", "heap_sort"}
KeyedSorts == {"insertion_sort_keyed", "merge_sort_keyed"}
AllSorts == IntSorts \cup {"counting_sort"} \cup KeyedSorts

SortInit ==
    /\ arr \in SeqsUpTo(Values, MaxLen)
    /\ results = [f \in AllSorts |-> NotRun]
    /\ SearchIdle /\ BSTEmpty /\ HeapsEmpty /\ GraphEmpty /\ StringIdle /\ RestIdle

Store(f, outcome) ==
    /\ results[f] = NotRun
    /\ results' = [results EXCEPT ![f] = outcome]
    /\ UNCHANGED <<arr, searchVars, bstVars, heapVars, graphVars, stringVars, restVars>>

CallBubbleSort == Store("bubble_sort", Return(bubble_sort(arr)))
CallSelectionSort == Store("selection_sort", Return(selection_sort(arr)))
CallInsertionSort == Store("insertion_sort", Return(insertion_sort(arr)))
CallMergeSort == Store("merge_sort", Return(merge_sort(arr)))
CallQuickSort == Store("quick_sort", Return(quick_sort(arr)))
CallHeapSort == Store("heap_sort", Return(heap_sort(arr)))
CallCountingSort == Store("counting_sort", counting_sort(arr))
CallInsertionSortKeyed ==
    Store("insertion_sort_keyed", Return(insertion_sort_keyed(Tagged(arr))))
CallMergeSortKeyed ==
    Store("merge_sort_keyed", Return(merge_sort_keyed(Tagged(arr))))

SortNext ==
    \/ CallBubbleSort
    \/ CallSelectionSort
    \/ CallInsertionSort
    \/ CallMergeSort
    \/ CallQuickSort
    \/ CallHeapSort
    \/ CallCountingSort
    \/ CallInsertionSortKeyed
    \/ CallMergeSortKeyed

SpecSort == SortInit /\ [][SortNext]_vars

\* ------------------------------------------------------------ sort claims
Elems(s) == {s[i] : i \in 1..Len(s)}
IsSorted(s) == \A i \in 1..(Len(s) - 1) : s[i] <= s[i + 1]
Count(s, v) == Cardinality({i \in 1..Len(s) : s[i] = v})
IsPermutation(s, t) ==
    /\ Len(s) = Len(t)
    /\ \A v \in Elems(s) \cup Elems(t) : Count(s, v) = Count(t, v)
Ran(f) == results[f] # NotRun

\* C1: each of bubble_sort, selection_sort, insertion_sort, merge_sort,
\* quick_sort and heap_sort returns a non-decreasing permutation of its input.
C1_SortsSortAndPermute ==
    \A f \in IntSorts :
        Ran(f) => /\ results[f].exc = "none"
                  /\ IsSorted(results[f].ret)
                  /\ IsPermutation(results[f].ret, arr)

C1_Witness ==
    /\ \A f \in IntSorts : Ran(f)
    /\ Len(arr) = MaxLen
    /\ ~IsSorted(arr)
    /\ \E i \in 1..(Len(arr) - 1) : arr[i] = arr[i + 1]

\* C2 as stated: whichever of the seven sorting functions have run on the same
\* input, integers of either sign, returned the same thing.
SevenSorts == IntSorts \cup {"counting_sort"}
C2_AllSevenAgree ==
    \A f, g \in SevenSorts : (Ran(f) /\ Ran(g)) => results[f] = results[g]

\* C2 amended: on an input of non-negative integers the seven sorting
\* functions return identical sequences.
NonNegative(s) == \A i \in 1..Len(s) : s[i] >= 0
C2_AllSevenAgreeOnNonNegative ==
    NonNegative(arr) =>
        \A f, g \in SevenSorts : (Ran(f) /\ Ran(g)) => results[f] = results[g]

C2_Witness ==
    /\ \A f \in SevenSorts : Ran(f)
    /\ NonNegative(arr)
    /\ Len(arr) = MaxLen
    /\ ~IsSorted(arr)
    /\ \E i, j \in 1..Len(arr) : i # j /\ arr[i] = arr[j]

\* C3: insertion_sort and merge_sort are stable: the output is ordered by key
\* and two elements with equal keys keep the relative order they had in the
\* input (their tags, the input positions, ascend).
StableSorted(s) ==
    \A i, j \in 1..Len(s) :
        i < j => \/ s[i].key < s[j].key
                 \/ (s[i].key = s[j].key /\ s[i].tag < s[j].tag)
C3_InsertionAndMergeStable ==
    \A f \in KeyedSorts :
        Ran(f) => /\ StableSorted(results[f].ret)
                  /\ Elems(results[f].ret) = Elems(Tagged(arr))
                  /\ Len(results[f].ret) = Len(arr)

C3_Witness ==
    /\ \A f \in KeyedSorts : Ran(f)
    /\ Len(arr) = MaxLen
    /\ ~IsSorted(arr)
    /\ \E i, j \in 1..Len(arr) : i # j /\ arr[i] = arr[j]

\* ================================================================= search
\* the loop as it would be with the condition left < right
RECURSIVE binary_search_loop_exclusive(_, _, _, _)
binary_search_loop_exclusive(a, x, left, right) ==
    IF left < right
    THEN LET mid == (left + right) \div 2
         IN  IF At(a, mid) = x THEN mid
             ELSE IF At(a, mid) < x
                  THEN binary_search_loop_exclusive(a, x, mid + 1, right)
                  ELSE binary_search_loop_exclusive(a, x, left, mid - 1)
    ELSE -1

RECURSIVE binary_search_loop(_, _, _, _)
binary_search_loop(a, x, left, right) ==
    IF left <= right
    THEN LET mid == (left + right) \div 2
         IN  IF At(a, mid) = x THEN mid
             ELSE IF At(a, mid) < x
                  THEN binary_search_loop(a, x, mid + 1, right)
                  ELSE binary_search_loop(a, x, left, mid - 1)
    ELSE -1

binary_search(a, x) == binary_search_loop(a, x, 0, Len(a) - 1)

RECURSIVE binary_search_recursive(_, _, _, _)
binary_search_recursive(a, x, left, right) ==
    IF left > right THEN -1
    ELSE LET mid == (left + right) \div 2
         IN  IF At(a, mid) = x THEN mid
             ELSE IF At(a, mid) < x
                  THEN binary_search_recursive(a, x, mid + 1, right)
                  ELSE binary_search_recursive(a, x, left, mid - 1)

\* linear_search: the loop over enumerate(arr)
RECURSIVE linear_search_loop(_, _, _)
linear_search_loop(a, x, i) ==
    IF i >= Len(a) THEN -1
    ELSE IF At(a, i) = x THEN i
    ELSE linear_search_loop(a, x, i + 1)

linear_search(a, x) == linear_search_loop(a, x, 0)

\* int(n ** 0.5)
int_sqrt(n) == CHOOSE k \in 0..n : k * k <= n /\ (k + 1) * (k + 1) > n

min(a, b) == IF a < b THEN a ELSE b

\* a[i] as Python evaluates it: a negative i counts from the end, and an i
\* outside the list raises IndexError
list_item(a, i) ==
    LET k == IF i < 0 THEN i + Len(a) ELSE i
    IN  IF k >= 0 /\ k < Len(a) THEN Return(At(a, k)) ELSE Raise("IndexError")

\* jump_search's second loop, the linear scan from prev
RECURSIVE jump_search_scan(_, _, _, _)
jump_search_scan(a, x, prev, step) ==
    LET item == list_item(a, prev)
    IN  IF item.exc # "none" THEN item
        ELSE IF item.ret < x
             THEN IF prev + 1 = min(step, Len(a)) THEN Return(-1)
                  ELSE jump_search_scan(a, x, prev + 1, step)
             ELSE IF item.ret = x THEN Return(prev) ELSE Return(-1)

\* the first loop as it would be if it also jumped past a block whose last
\* item equals the target
RECURSIVE jump_search_jump_inclusive(_, _, _, _)
jump_search_jump_inclusive(a, x, prev, step) ==
    LET n == Len(a)
        item == list_item(a, min(step, n) - 1)
    IN  IF item.exc # "none" THEN item
        ELSE IF item.ret <= x
             THEN IF step >= n THEN Return(-1)
                  ELSE jump_search_jump_inclusive(a, x, step, step + int_sqrt(n))
             ELSE jump_search_scan(a, x, prev, step)

\* jump_search's first loop, the jumps of int(n ** 0.5)
RECURSIVE jump_search_jump(_, _, _, _)
jump_search_jump(a, x, prev, step) ==
    LET n == Len(a)
        item == list_item(a, min(step, n) - 1)
    IN  IF item.exc # "none" THEN item
        ELSE IF item.ret < x
             THEN IF step >= n THEN Return(-1)
                  ELSE jump_search_jump(a, x, step, step + int_sqrt(n))
             ELSE jump_search_scan(a, x, prev, step)

jump_search(a, x) == jump_search_jump(a, x, 0, int_sqrt(Len(a)))

\* ------------------------------------------------- the search state machine
Targets == Values \cup {-2, 3}
BinarySearches == {"binary_search", "binary_search_recursive"}
AllSearches == BinarySearches \cup {"linear_search", "jump_search"}

\* the ascending lists of at most n values, each built by appending a value
\* that is not below the last one
RECURSIVE AscendingUpTo(_)
AscendingUpTo(n) ==
    IF n = 0 THEN {<<>>}
    ELSE LET shorter == AscendingUpTo(n - 1)
             longest == {t \in shorter : Len(t) = n - 1}
         IN  shorter \cup
             UNION {{Append(t, v) : v \in {w \in Values :
                                             t = <<>> \/ t[Len(t)] <= w}} :
                    t \in longest}

\* The caller's list is any short list, or an ascending list long enough for
\* jump_search to make several jumps of more than one element.
SearchInit ==
    /\ arr \in SeqsUpTo(Values, MaxLen) \cup AscendingUpTo(MaxSortedLen)
    /\ results = <<>>
    /\ target \in Targets
    /\ found = [f \in AllSearches |-> NotRun]
    /\ BSTEmpty /\ HeapsEmpty /\ GraphEmpty /\ StringIdle /\ RestIdle

StoreFound(f, outcome) ==
    /\ found[f] = NotRun
    /\ found' = [found EXCEPT ![f] = outcome]
    /\ UNCHANGED <<sortVars, target, bstVars, heapVars, graphVars, stringVars, restVars>>

CallBinarySearch == StoreFound("binary_search", Return(binary_search(arr, target)))
CallBinarySearchRecursive ==
    StoreFound("binary_search_recursive",
               Return(binary_search_recursive(arr, target, 0, Len(arr) - 1)))

CallLinearSearch == StoreFound("linear_search", Return(linear_search(arr, target)))
CallJumpSearch == StoreFound("jump_search", jump_search(arr, target))

SearchNext ==
    \/ CallBinarySearch
    \/ CallBinarySearchRecursive
    \/ CallLinearSearch
    \/ CallJumpSearch

SpecSearch == SearchInit /\ [][SearchNext]_vars

\* C4: on an ascending list, binary_search and binary_search_recursive return
\* an index holding the target when the target occurs, and -1 exactly when it
\* does not occur.
C4_BinarySearchFinds ==
    IsSorted(arr) =>
        \A f \in BinarySearches :
            found[f] # NotRun =>
                LET r == found[f].ret
                IN  IF target \in Elems(arr)
                    THEN r \in 0..(Len(arr) - 1) /\ At(arr, r) = target
                    ELSE r = -1

C4_Witness ==
    /\ \A f \in BinarySearches : found[f] # NotRun
    /\ IsSorted(arr) /\ Len(arr) = MaxLen
    /\ found["binary_search"].ret = Len(arr) - 1
    /\ found["binary_search_recursive"].ret = Len(arr) - 1
    /\ At(arr, 0) < target

\* C27: for every list of non-negative integers, the empty list and lists
\* with repeated values included, counting_sort returns a non-decreasing
\* permutation of the list; for a non-empty list its frequency table has
\* max(a) + 1 slots, slot v holding the number of occurrences of v.
Greatest(s) == CHOOSE m \in Elems(s) : \A x \in Elems(s) : x <= m

C27_CountingSortNonNegative ==
    (NonNegative(arr) /\ Ran("counting_sort")) =>
        /\ results["counting_sort"].exc = "none"
        /\ IsSorted(results["counting_sort"].ret)
        /\ IsPermutation(results["counting_sort"].ret, arr)
        /\ arr # <<>> =>
              LET count == counting_tally(arr, 0, zeros(list_max(arr) + 1))
              IN  /\ count.exc = "none"
                  /\ Len(count.ret) = Greatest(arr) + 1
                  /\ \A v \in 0..Greatest(arr) : At(count.ret, v) = Count(arr, v)

\* a full-length unsorted list of non-negative values, one of them repeated
\* and the greatest not in front
C27_Witness ==
    /\ Ran("counting_sort")
    /\ NonNegative(arr)
    /\ Len(arr) = MaxLen
    /\ ~IsSorted(arr)
    /\ arr[1] < Greatest(arr)
    /\ \E i, j \in 1..Len(arr) : i # j /\ arr[i] = arr[j]
    /\ results["counting_sort"].ret # arr

\* ====================================================== binary search tree
\* A TreeNode is <<data, left, right>>; an absent child (None) is Nil.
TreeNode(data) == <<data, Nil, Nil>>
Data(node) == node[1]
Left(node) == node[2]
Right(node) == node[3]

RECURSIVE insert_recursive(_, _)
insert_recursive(node, data) ==
    IF data < Data(node)
    THEN IF Left(node) = Nil
         THEN <<Data(node), TreeNode(data), Right(node)>>
         ELSE <<Data(node), insert_recursive(Left(node), data), Right(node)>>
    ELSE IF Right(node) = Nil
         THEN <<Data(node), Left(node), TreeNode(data)>>
         ELSE <<Data(node), Left(node), insert_recursive(Right(node), data)>>

insert(tree, data) ==
    IF tree = Nil THEN TreeNode(data) ELSE insert_recursive(tree, data)

RECURSIVE find_min(_)
find_min(node) == IF Left(node) # Nil THEN find_min(Left(node)) ELSE node

\* the deletion as it would be if the right child itself, not the minimum of
\* the right subtree, replaced a node with two children
RECURSIVE delete_recursive_right_child(_, _)
delete_recursive_right_child(node, data) ==
    IF node = Nil THEN node
    ELSE IF data < Data(node)
    THEN <<Data(node), delete_recursive_right_child(Left(node), data), Right(node)>>
    ELSE IF data > Data(node)
    THEN <<Data(node), Left(node), delete_recursive_right_child(Right(node), data)>>
    ELSE IF Left(node) = Nil THEN Right(node)
    ELSE IF Right(node) = Nil THEN Left(node)
    ELSE LET temp == Right(node)
         IN  <<Data(temp), Left(node),
               delete_recursive_right_child(Right(node), Data(temp))>>

\* the deletion as it would be if the successor that replaces a node with two
\* children were left in the right subtree
RECURSIVE delete_recursive_keep_successor(_, _)
delete_recursive_keep_successor(node, data) ==
    IF node = Nil THEN node
    ELSE IF data < Data(node)
    THEN <<Data(node), delete_recursive_keep_successor(Left(node), data), Right(node)>>
    ELSE IF data > Data(node)
    THEN <<Data(node), Left(node), delete_recursive_keep_successor(Right(node), data)>>
    ELSE IF Left(node) = Nil THEN Right(node)
    ELSE IF Right(node) = Nil THEN Left(node)
    ELSE LET temp == find_min(Right(node))
         IN  <<Data(temp), Left(node), Right(node)>>

RECURSIVE delete_recursive(_, _)
delete_recursive(node, data) ==
    IF node = Nil THEN node
    ELSE IF data < Data(node)
    THEN <<Data(node), delete_recursive(Left(node), data), Right(node)>>
    ELSE IF data > Data(node)
    THEN <<Data(node), Left(node), delete_recursive(Right(node), data)>>
    ELSE IF Left(node) = Nil THEN Right(node)
    ELSE IF Right(node) = Nil THEN Left(node)
    ELSE LET temp == find_min(Right(node))
         IN  <<Data(temp), Left(node), delete_recursive(Right(node), Data(temp))>>

delete(tree, data) == delete_recursive(tree, data)

RECURSIVE search_recursive(_, _)
search_recursive(node, data) ==
    IF node = Nil THEN node
    ELSE IF Data(node) = data THEN node
    ELSE IF data < Data(node) THEN search_recursive(Left(node), data)
    ELSE search_recursive(Right(node), data)

search(tree, data) == search_recursive(tree, data)

RECURSIVE inorder_traversal(_)
inorder_traversal(node) ==
    IF node = Nil THEN <<>>
    ELSE inorder_traversal(Left(node)) \o <<Data(node)>>
            \o inorder_traversal(Right(node))

\* ---------------------------------------------------- the BST state machine
Children(node) ==
    IF node = Nil THEN -1
    ELSE (IF Left(node) # Nil THEN 1 ELSE 0) + (IF Right(node) # Nil THEN 1 ELSE 0)

BSTInit ==
    /\ SortIdle /\ SearchIdle /\ HeapsEmpty /\ GraphEmpty /\ StringIdle /\ RestIdle
    /\ BSTEmpty

BSTInsert(data) ==
    /\ Len(inorder_traversal(root)) < MaxNodes
    /\ root' = insert(root, data)
    /\ lastop' = [op |-> "insert", data |-> data, children |-> -1]
    /\ UNCHANGED <<sortVars, searchVars, heapVars, graphVars, stringVars, restVars>>

BSTDelete(data) ==
    /\ root' = delete(root, data)
    /\ lastop' = [op |-> "delete", data |-> data,
                  children |-> Children(search(root, data))]
    /\ UNCHANGED <<sortVars, searchVars, heapVars, graphVars, stringVars, restVars>>

BSTNext ==
    \/ \E data \in BSTValues : BSTInsert(data)
    \/ \E data \in BSTValues : BSTDelete(data)

SpecBST == BSTInit /\ [][BSTNext]_vars

\* C5: after any inserts and deletes, at every node the left subtree holds
\* only smaller values and the right subtree only greater-or-equal values, and
\* the in-order traversal is non-decreasing.
RECURSIVE BSTOrdered(_)
BSTOrdered(node) ==
    \/ node = Nil
    \/ /\ \A v \in Elems(inorder_traversal(Left(node))) : v < Data(node)
       /\ \A v \in Elems(inorder_traversal(Right(node))) : v >= Data(node)
       /\ BSTOrdered(Left(node))
       /\ BSTOrdered(Right(node))

C5_BSTInvariant == BSTOrdered(root) /\ IsSorted(inorder_traversal(root))

\* the tree left by deleting a root that had two children and whose value
\* occurred twice in its right subtree's successor chain
C5_Witness ==
    /\ lastop = [op |-> "delete", data |-> 2, children |-> 2]
    /\ root = <<3, TreeNode(1), TreeNode(3)>>

\* C25: BST.delete(x) on a tree that contains x removes exactly one occurrence
\* of x, whatever the number of children of the removed node and whether or
\* not it is the root: every other value keeps its number of occurrences; when
\* x is absent the tree is left unchanged.
C25_DeleteRemovesOne ==
    [][lastop'.op = "delete" =>
        LET x == lastop'.data
            before == inorder_traversal(root)
            after == inorder_traversal(root')
        IN  IF x \in Elems(before)
            THEN /\ Len(after) = Len(before) - 1
                 /\ \A v \in BSTValues :
                       Count(after, v) = Count(before, v) - (IF v = x THEN 1 ELSE 0)
            ELSE root' = root]_vars

\* a delete of the root's value, the root having had two children and the
\* value a second occurrence, which is still in the full tree
C25_Witness ==
    /\ lastop.op = "delete"
    /\ lastop.children = 2
    /\ root # Nil
    /\ Data(root) = lastop.data
    /\ Len(inorder_traversal(root)) = MaxNodes - 1
    /\ Count(inorder_traversal(root), lastop.data) = 1

\* ================================================================== heaps
\* heapq, as the library's heappush and heappop act on the list
RECURSIVE siftdown_loop(_, _, _, _)
siftdown_loop(heap, startpos, pos, newitem) ==
    IF pos > startpos
    THEN LET parentpos == (pos - 1) \div 2
             parent == At(heap, parentpos)
         IN  IF newitem < parent
             THEN siftdown_loop(SetAt(heap, pos, parent), startpos, parentpos, newitem)
             ELSE SetAt(heap, pos, newitem)
    ELSE SetAt(heap, pos, newitem)

siftdown(heap, startpos, pos) == siftdown_loop(heap, startpos, pos, At(heap, pos))

\* the sift as it would be if it always followed the left child
RECURSIVE siftup_loop_left_only(_, _, _, _)
siftup_loop_left_only(heap, startpos, pos, newitem) ==
    LET endpos == Len(heap)
        childpos == 2 * pos + 1
    IN  IF childpos < endpos
        THEN siftup_loop_left_only(SetAt(heap, pos, At(heap, childpos)),
                                   startpos, childpos, newitem)
        ELSE siftdown(SetAt(heap, pos, newitem), startpos, pos)

RECURSIVE siftup_loop(_, _, _, _)
siftup_loop(heap, startpos, pos, newitem) ==
    LET endpos == Len(heap)
        childpos == 2 * pos + 1
    IN  IF childpos < endpos
        THEN LET rightpos == childpos + 1
                 c == IF rightpos < endpos /\ ~(At(heap, childpos) < At(heap, rightpos))
                      THEN rightpos ELSE childpos
             IN  siftup_loop(SetAt(heap, pos, At(heap, c)), startpos, c, newitem)
        ELSE siftdown(SetAt(heap, pos, newitem), startpos, pos)

siftup(heap, pos) == siftup_loop(heap, pos, pos, At(heap, pos))

heappush(heap, item) == siftdown(Append(heap, item), 0, Len(heap))

\* heappop on a non-empty list: the item returned and the list left
heappop(heap) ==
    LET lastelt == heap[Len(heap)]
        rest == SubSeq(heap, 1, Len(heap) - 1)
    IN  IF rest # <<>>
        THEN [item |-> rest[1], heap |-> siftup(SetAt(rest, 0, lastelt), 0)]
        ELSE [item |-> lastelt, heap |-> rest]

MinHeap_push(heap, item) == heappush(heap, item)
MinHeap_pop(heap) ==
    IF heap # <<>>
    THEN LET p == heappop(heap) IN [item |-> Some(p.item), heap |-> p.heap]
    ELSE [item |-> None, heap |-> heap]
MinHeap_peek(heap) == IF heap # <<>> THEN Some(At(heap, 0)) ELSE None

MaxHeap_push(heap, item) == heappush(heap, -item)
MaxHeap_pop(heap) ==
    IF heap # <<>>
    THEN LET p == heappop(heap) IN [item |-> Some(-p.item), heap |-> p.heap]
    ELSE [item |-> None, heap |-> heap]
MaxHeap_peek(heap) == IF heap # <<>> THEN Some(-At(heap, 0)) ELSE None

\* --------------------------------------------------- the heap state machine
\* minheld / maxheld count, per value, the pushes not yet matched by a pop
\* that returned the value
HeapInit ==
    /\ SortIdle /\ SearchIdle /\ BSTEmpty /\ GraphEmpty /\ StringIdle /\ RestIdle
    /\ HeapsEmpty

MinPush(item) ==
    /\ Len(minheap) < MaxHeapLen
    /\ minheap' = MinHeap_push(minheap, item)
    /\ minheld' = [minheld EXCEPT ![item] = @ + 1]
    /\ UNCHANGED <<sortVars, searchVars, bstVars, maxheap, maxheld, graphVars, stringVars, restVars>>

MinPop ==
    LET p == MinHeap_pop(minheap)
    IN  /\ minheap' = p.heap
        /\ minheld' = IF p.item = None THEN minheld
                      ELSE [minheld EXCEPT ![p.item[1]] = @ - 1]
        /\ UNCHANGED <<sortVars, searchVars, bstVars, maxheap, maxheld, graphVars, stringVars, restVars>>

MaxPush(item) ==
    /\ Len(maxheap) < MaxHeapLen
    /\ maxheap' = MaxHeap_push(maxheap, item)
    /\ maxheld' = [maxheld EXCEPT ![item] = @ + 1]
    /\ UNCHANGED <<sortVars, searchVars, bstVars, minheap, minheld, graphVars, stringVars, restVars>>

MaxPop ==
    LET p == MaxHeap_pop(maxheap)
    IN  /\ maxheap' = p.heap
        /\ maxheld' = IF p.item = None THEN maxheld
                      ELSE [maxheld EXCEPT ![p.item[1]] = @ - 1]
        /\ UNCHANGED <<sortVars, searchVars, bstVars, minheap, minheld, graphVars, stringVars, restVars>>

HeapNext ==
    \/ \E item \in HeapValues : MinPush(item)
    \/ MinPop
    \/ \E item \in HeapValues : MaxPush(item)
    \/ MaxPop

SpecHeap == HeapInit /\ [][HeapNext]_vars

\* C6: MinHeap.peek() is the least and MaxHeap.peek() the greatest (as pushed,
\* un-negated) of the values pushed and not yet popped, and each is None
\* exactly when no such value is left.
Held(h) == {v \in HeapValues : h[v] > 0}
RECURSIVE SumHeld(_, _)
SumHeld(h, S) ==
    IF S = {} THEN 0
    ELSE LET v == CHOOSE x \in S : TRUE IN h[v] + SumHeld(h, S \ {v})
C6_PeekIsExtreme ==
    /\ \A v \in HeapValues : minheld[v] >= 0 /\ maxheld[v] >= 0
    /\ (MinHeap_peek(minheap) = None) <=> (Held(minheld) = {})
    /\ (MaxHeap_peek(maxheap) = None) <=> (Held(maxheld) = {})
    /\ Len(minheap) = SumHeld(minheld, HeapValues)
    /\ Len(maxheap) = SumHeld(maxheld, HeapValues)
    /\ Held(minheld) # {} =>
          LET m == MinHeap_peek(minheap)[1]
          IN  m \in Held(minheld) /\ \A v \in Held(minheld) : m <= v
    /\ Held(maxheld) # {} =>
          LET m == MaxHeap_peek(maxheap)[1]
          IN  m \in Held(maxheld) /\ \A v \in Held(maxheld) : m >= v

\* four values pushed on each heap, then one popped from each
C6_Witness ==
    /\ Len(minheap) = MaxHeapLen - 1 /\ Len(maxheap) = MaxHeapLen - 1
    /\ Cardinality(Held(minheld)) >= 2 /\ Cardinality(Held(maxheld)) >= 2
    /\ \E v \in HeapValues : minheld[v] >= 2
    /\ MinHeap_peek(minheap) = Some(0)
    /\ MaxHeap_peek(maxheap) = Some(0)
    /\ minheap # maxheap

\* ================================================================== graph
\* Graph.graph is a dict: keys is its key order (the order of insertion), adj
\* maps each key to its list of <<neighbor, weight>> pairs.
Inf == 1000000
Plus(d, w) == IF d = Inf THEN Inf ELSE d + w

add_vertex(g, vertex) ==
    IF vertex \in DOMAIN g.adj THEN g
    ELSE [keys |-> Append(g.keys, vertex),
          adj |-> [x \in DOMAIN g.adj \cup {vertex} |->
                      IF x = vertex THEN <<>> ELSE g.adj[x]]]

append_neighbor(g, vertex, pair) ==
    [g EXCEPT !.adj[vertex] = Append(@, pair)]

add_edge(g, dir, vertex1, vertex2, weight) ==
    LET g1 == add_vertex(add_vertex(g, vertex1), vertex2)
        g2 == append_neighbor(g1, vertex1, <<vertex2, weight>>)
    IN  IF ~dir THEN append_neighbor(g2, vertex2, <<vertex1, weight>>) ELSE g2

\* heapq on the list of (distance, vertex) tuples: heappush adds the tuple,
\* heappop removes and returns the least tuple in Python's tuple order
TupleLess(x, y) == x[1] < y[1] \/ (x[1] = y[1] /\ x[2] < y[2])
pq_push(pq, item) == Append(pq, item)
pq_least(pq) ==
    CHOOSE k \in 1..Len(pq) :
        \A m \in 1..Len(pq) : ~TupleLess(pq[m], pq[k]) /\ (pq[m] = pq[k] => k <= m)
pq_pop(pq) ==
    LET k == pq_least(pq)
    IN  [item |-> pq[k], pq |-> SubSeq(pq, 1, k - 1) \o SubSeq(pq, k + 1, Len(pq))]

\* the relaxation as it would be if a distance were set only on first discovery
RECURSIVE dijkstra_relax_first_only(_, _, _, _, _)
dijkstra_relax_first_only(edges, k, current_dist, distances, pq) ==
    IF k >= Len(edges) THEN [distances |-> distances, pq |-> pq]
    ELSE LET neighbor == At(edges, k)[1]
             weight == At(edges, k)[2]
             distance == current_dist + weight
         IN  IF distances[neighbor] = Inf
             THEN dijkstra_relax_first_only(edges, k + 1, current_dist,
                                 [distances EXCEPT ![neighbor] = distance],
                                 pq_push(pq, <<distance, neighbor>>))
             ELSE dijkstra_relax_first_only(edges, k + 1, current_dist,
                                            distances, pq)

\* the relaxation as it would be if the tentative distance of a neighbour were
\* the weight of the edge alone
RECURSIVE dijkstra_relax_edge_only(_, _, _, _, _)
dijkstra_relax_edge_only(edges, k, current_dist, distances, pq) ==
    IF k >= Len(edges) THEN [distances |-> distances, pq |-> pq]
    ELSE LET neighbor == At(edges, k)[1]
             weight == At(edges, k)[2]
             distance == weight
         IN  IF distance < distances[neighbor]
             THEN dijkstra_relax_edge_only(edges, k + 1, current_dist,
                                 [distances EXCEPT ![neighbor] = distance],
                                 pq_push(pq, <<distance, neighbor>>))
             ELSE dijkstra_relax_edge_only(edges, k + 1, current_dist, distances, pq)

\* dijkstra: the for loop over graph[current]
RECURSIVE dijkstra_relax(_, _, _, _, _)
dijkstra_relax(edges, k, current_dist, distances, pq) ==
    IF k >= Len(edges) THEN [distances |-> distances, pq |-> pq]
    ELSE LET neighbor == At(edges, k)[1]
             weight == At(edges, k)[2]
             distance == current_dist + weight
         IN  IF distance < distances[neighbor]
             THEN dijkstra_relax(edges, k + 1, current_dist,
                                 [distances EXCEPT ![neighbor] = distance],
                                 pq_push(pq, <<distance, neighbor>>))
             ELSE dijkstra_relax(edges, k + 1, current_dist, distances, pq)

RECURSIVE dijkstra_loop(_, _, _, _)
dijkstra_loop(g, distances, pq, visited) ==
    IF pq = <<>> THEN distances
    ELSE LET p == pq_pop(pq)
             current_dist == p.item[1]
             current == p.item[2]
         IN  IF current \in visited
             THEN dijkstra_loop(g, distances, p.pq, visited)
             ELSE LET r == dijkstra_relax(g.adj[current], 0, current_dist,
                                          distances, p.pq)
                  IN  dijkstra_loop(g, r.distances, r.pq, visited \cup {current})

dijkstra(g, start) ==
    dijkstra_loop(g, [[v \in DOMAIN g.adj |-> Inf] EXCEPT ![start] = 0],
                  <<<<0, start>>>>, {})

\* bellman_ford: the loops over graph[vertex], over the vertices, and V-1 times
RECURSIVE bellman_ford_edges(_, _, _, _)
bellman_ford_edges(edges, k, vertex, distances) ==
    IF k >= Len(edges) THEN distances
    ELSE LET neighbor == At(edges, k)[1]
             weight == At(edges, k)[2]
         IN  IF Plus(distances[vertex], weight) < distances[neighbor]
             THEN bellman_ford_edges(edges, k + 1, vertex,
                     [distances EXCEPT ![neighbor] = Plus(distances[vertex], weight)])
             ELSE bellman_ford_edges(edges, k + 1, vertex, distances)

RECURSIVE bellman_ford_pass(_, _, _)
bellman_ford_pass(g, i, distances) ==
    IF i >= Len(g.keys) THEN distances
    ELSE LET vertex == At(g.keys, i)
         IN  bellman_ford_pass(g, i + 1,
                 bellman_ford_edges(g.adj[vertex], 0, vertex, distances))

\* the relaxation rounds as they would be if a single round were made
bellman_ford_passes_single(g, n, distances) ==
    IF n <= 0 THEN distances ELSE bellman_ford_pass(g, 0, distances)

RECURSIVE bellman_ford_passes(_, _, _)
bellman_ford_passes(g, n, distances) ==
    IF n <= 0 THEN distances
    ELSE bellman_ford_passes(g, n - 1, bellman_ford_pass(g, 0, distances))

\* the detection pass as it would be if only the first edge of each adjacency
\* list were examined
bellman_ford_relaxable_first(g, distances) ==
    \E vertex \in DOMAIN g.adj :
        /\ g.adj[vertex] # <<>>
        /\ Plus(distances[vertex], g.adj[vertex][1][2])
              < distances[g.adj[vertex][1][1]]

\* the detection pass: some edge can still be relaxed
bellman_ford_relaxable(g, distances) ==
    \E vertex \in DOMAIN g.adj :
        \E k \in 1..Len(g.adj[vertex]) :
            Plus(distances[vertex], g.adj[vertex][k][2])
                < distances[g.adj[vertex][k][1]]

bellman_ford(g, start) ==
    LET distances ==
            bellman_ford_passes(g, Len(g.keys) - 1,
                [[v \in DOMAIN g.adj |-> Inf] EXCEPT ![start] = 0])
    IN  IF bellman_ford_relaxable(g, distances) THEN None ELSE Some(distances)

\* topological_sort (Kahn)
RECURSIVE topo_count_edges(_, _, _)
topo_count_edges(edges, k, in_degree) ==
    IF k >= Len(edges) THEN in_degree
    ELSE topo_count_edges(edges, k + 1,
             [in_degree EXCEPT ![At(edges, k)[1]] = @ + 1])

RECURSIVE topo_in_degree(_, _, _)
topo_in_degree(g, i, in_degree) ==
    IF i >= Len(g.keys) THEN in_degree
    ELSE topo_in_degree(g, i + 1,
             topo_count_edges(g.adj[At(g.keys, i)], 0, in_degree))

RECURSIVE topo_zero(_, _, _)
topo_zero(keys, i, in_degree) ==
    IF i >= Len(keys) THEN <<>>
    ELSE (IF in_degree[At(keys, i)] = 0 THEN <<At(keys, i)>> ELSE <<>>)
            \o topo_zero(keys, i + 1, in_degree)

RECURSIVE topo_release(_, _, _, _)
topo_release(edges, k, in_degree, queue) ==
    IF k >= Len(edges) THEN [in_degree |-> in_degree, queue |-> queue]
    ELSE LET neighbor == At(edges, k)[1]
             deg == in_degree[neighbor] - 1
         IN  topo_release(edges, k + 1, [in_degree EXCEPT ![neighbor] = deg],
                          IF deg = 0 THEN Append(queue, neighbor) ELSE queue)

RECURSIVE topo_loop(_, _, _, _)
topo_loop(g, in_degree, queue, result) ==
    IF queue = <<>> THEN result
    ELSE LET vertex == Head(queue)
             r == topo_release(g.adj[vertex], 0, in_degree, Tail(queue))
         IN  topo_loop(g, r.in_degree, r.queue, Append(result, vertex))

\* the sort as it would be without the comparison of lengths
topological_sort_unchecked(g) ==
    LET in_degree == topo_in_degree(g, 0, [v \in DOMAIN g.adj |-> 0])
    IN  Some(topo_loop(g, in_degree, topo_zero(g.keys, 0, in_degree), <<>>))

topological_sort(g) ==
    LET in_degree == topo_in_degree(g, 0, [v \in DOMAIN g.adj |-> 0])
        result == topo_loop(g, in_degree, topo_zero(g.keys, 0, in_degree), <<>>)
    IN  IF Len(result) # Len(g.keys) THEN None ELSE Some(result)

\* -------------------------------------------------- the graph state machine
\* the number of add_edge calls made so far
RECURSIVE EdgeEntries(_, _)
EdgeEntries(g, i) ==
    IF i >= Len(g.keys) THEN 0
    ELSE Len(g.adj[At(g.keys, i)]) + EdgeEntries(g, i + 1)
EdgeCalls == EdgeEntries(graph, 0) \div (IF directed THEN 1 ELSE 2)

\* graph.graph.get(vertex, [])
neighbors_of(g, vertex) == IF vertex \in DOMAIN g.adj THEN g.adj[vertex] ELSE <<>>

\* bfs: the loop over a vertex's adjacency list, appending to the queue every
\* neighbor not yet visited
RECURSIVE bfs_enqueue(_, _, _, _)
bfs_enqueue(nbrs, k, visited, q) ==
    IF k >= Len(nbrs) THEN q
    ELSE IF At(nbrs, k)[1] \notin visited
         THEN bfs_enqueue(nbrs, k + 1, visited, Append(q, At(nbrs, k)[1]))
         ELSE bfs_enqueue(nbrs, k + 1, visited, q)

\* bfs's while loop as it would be without the test that a dequeued vertex
\* has not been visited yet
RECURSIVE bfs_loop_revisit(_, _, _, _)
bfs_loop_revisit(g, q, visited, result) ==
    IF q = <<>> THEN result
    ELSE LET vertex == Head(q)
             seen == visited \cup {vertex}
         IN  bfs_loop_revisit(g, bfs_enqueue(neighbors_of(g, vertex), 0, seen, Tail(q)),
                              seen, Append(result, vertex))

\* bfs's while loop
RECURSIVE bfs_loop(_, _, _, _)
bfs_loop(g, q, visited, result) ==
    IF q = <<>> THEN result
    ELSE LET vertex == Head(q)
             seen == visited \cup {vertex}
         IN  IF vertex \notin visited
             THEN bfs_loop(g, bfs_enqueue(neighbors_of(g, vertex), 0, seen, Tail(q)),
                           seen, Append(result, vertex))
             ELSE bfs_loop(g, Tail(q), visited, result)

bfs(g, start) == bfs_loop(g, <<start>>, {}, <<>>)

\* dfs with the visited set it shares with its recursive calls: dfs_visit is
\* one call, dfs_neighbors its loop over the adjacency list; each gives the
\* result list and the visited set it leaves
RECURSIVE dfs_visit(_, _, _)
RECURSIVE dfs_neighbors(_, _, _, _, _)
dfs_visit(g, start, visited) ==
    dfs_neighbors(g, neighbors_of(g, start), 0, visited \cup {start}, <<start>>)

dfs_neighbors(g, nbrs, k, visited, result) ==
    IF k >= Len(nbrs) THEN [result |-> result, visited |-> visited]
    ELSE IF At(nbrs, k)[1] \notin visited
         THEN LET sub == dfs_visit(g, At(nbrs, k)[1], visited)
              IN  dfs_neighbors(g, nbrs, k + 1, sub.visited, result \o sub.result)
         ELSE dfs_neighbors(g, nbrs, k + 1, visited, result)

dfs(g, start) == dfs_visit(g, start, {}).result

\* Graph.get_edges as it would be without the test that skips an edge whose
\* reverse is already listed
RECURSIVE get_edges_all(_, _, _, _, _)
get_edges_all(g, dir, i, j, edges) ==
    IF i >= Len(g.keys) THEN edges
    ELSE LET vertex == At(g.keys, i)
             nbrs == g.adj[vertex]
         IN  IF j >= Len(nbrs) THEN get_edges_all(g, dir, i + 1, 0, edges)
             ELSE get_edges_all(g, dir, i, j + 1,
                      Append(edges, <<vertex, At(nbrs, j)[1], At(nbrs, j)[2]>>))

\* Graph.get_edges: the two nested loops, vertex i of the dict and entry j of
\* its adjacency list, carrying edges
RECURSIVE get_edges_loop(_, _, _, _, _)
get_edges_loop(g, dir, i, j, edges) ==
    IF i >= Len(g.keys) THEN edges
    ELSE LET vertex == At(g.keys, i)
             nbrs == g.adj[vertex]
         IN  IF j >= Len(nbrs) THEN get_edges_loop(g, dir, i + 1, 0, edges)
             ELSE LET neighbor == At(nbrs, j)[1]
                      weight == At(nbrs, j)[2]
                      listed == \E k \in 1..Len(edges) :
                                    edges[k] = <<neighbor, vertex, weight>>
                  IN  IF dir \/ ~listed
                      THEN get_edges_loop(g, dir, i, j + 1,
                               Append(edges, <<vertex, neighbor, weight>>))
                      ELSE get_edges_loop(g, dir, i, j + 1, edges)

get_edges(g, dir) == get_edges_loop(g, dir, 0, 0, <<>>)

GraphInit ==
    /\ SortIdle /\ SearchIdle /\ BSTEmpty /\ HeapsEmpty /\ StringIdle /\ RestIdle
    /\ graph = EmptyGraph
    /\ directed \in BOOLEAN
    /\ gres = NoRun

\* The caller builds the graph, runs one algorithm on it, reads the result and
\* drops it before going on.
AddVertex(vertex) ==
    /\ gres = NoRun
    /\ graph' = add_vertex(graph, vertex)
    /\ gres' = NoRun
    /\ UNCHANGED <<sortVars, searchVars, bstVars, heapVars, directed, stringVars, restVars>>

AddEdge(vertex1, vertex2, weight) ==
    /\ gres = NoRun
    /\ EdgeCalls < MaxEdges
    /\ graph' = add_edge(graph, directed, vertex1, vertex2, weight)
    /\ gres' = NoRun
    /\ UNCHANGED <<sortVars, searchVars, bstVars, heapVars, directed, stringVars, restVars>>

RunDijkstra(start) ==
    /\ gres = NoRun
    /\ start \in DOMAIN graph.adj
    /\ gres' = [algo |-> "dijkstra", start |-> start, out |-> dijkstra(graph, start)]
    /\ UNCHANGED <<sortVars, searchVars, bstVars, heapVars, graph, directed, stringVars, restVars>>

RunBellmanFord(start) ==
    /\ gres = NoRun
    /\ start \in DOMAIN graph.adj
    /\ gres' = [algo |-> "bellman_ford", start |-> start,
                out |-> bellman_ford(graph, start)]
    /\ UNCHANGED <<sortVars, searchVars, bstVars, heapVars, graph, directed, stringVars, restVars>>

RunTopologicalSort ==
    /\ gres = NoRun
    /\ gres' = [algo |-> "topological_sort", start |-> 0,
                out |-> topological_sort(graph)]
    /\ UNCHANGED <<sortVars, searchVars, bstVars, heapVars, graph, directed, stringVars, restVars>>

RunBfs(start) ==
    /\ gres = NoRun
    /\ start \in DOMAIN graph.adj
    /\ gres' = [algo |-> "bfs", start |-> start, out |-> bfs(graph, start)]
    /\ UNCHANGED <<sortVars, searchVars, bstVars, heapVars, graph, directed, stringVars, restVars>>

RunDfs(start) ==
    /\ gres = NoRun
    /\ start \in DOMAIN graph.adj
    /\ gres' = [algo |-> "dfs", start |-> start, out |-> dfs(graph, start)]
    /\ UNCHANGED <<sortVars, searchVars, bstVars, heapVars, graph, directed, stringVars, restVars>>

RunGetEdges ==
    /\ gres = NoRun
    /\ gres' = [algo |-> "get_edges", start |-> 0, out |-> get_edges(graph, directed)]
    /\ UNCHANGED <<sortVars, searchVars, bstVars, heapVars, graph, directed, stringVars, restVars>>

DropResult ==
    /\ gres # NoRun
    /\ gres' = NoRun
    /\ UNCHANGED <<sortVars, searchVars, bstVars, heapVars, graph, directed, stringVars, restVars>>

GraphNext ==
    \/ \E vertex \in Vertices : AddVertex(vertex)
    \/ \E vertex1, vertex2 \in Vertices : \E weight \in Weights :
          AddEdge(vertex1, vertex2, weight)
    \/ \E start \in Vertices : RunDijkstra(start)
    \/ \E start \in Vertices : RunBellmanFord(start)
    \/ RunTopologicalSort
    \/ \E start \in Vertices : RunBfs(start)
    \/ \E start \in Vertices : RunDfs(start)
    \/ RunGetEdges
    \/ DropResult

SpecGraph == GraphInit /\ [][GraphNext]_vars

\* ----------------------------------------------------------- graph claims
Arcs(g) ==
    UNION {{<<u, g.adj[u][k][1], g.adj[u][k][2]>> : k \in 1..Len(g.adj[u])} :
           u \in DOMAIN g.adj}
RECURSIVE ReachFrom(_, _)
ReachFrom(g, S) ==
    LET N == S \cup {a[2] : a \in {b \in Arcs(g) : b[1] \in S}}
    IN  IF N = S THEN S ELSE ReachFrom(g, N)
Reach(g, s) == ReachFrom(g, {s})
NonNegWeights(g) == \A a \in Arcs(g) : a[3] >= 0

\* C7: with non-negative weights, dijkstra gives the source distance 0, leaves
\* no stored edge (u, v, w) with dist[v] > dist[u] + w, and leaves every vertex
\* that the source cannot reach at infinity.
C7_DijkstraClosure ==
    (gres.algo = "dijkstra" /\ NonNegWeights(graph)) =>
        LET dist == gres.out
        IN  /\ dist[gres.start] = 0
            /\ \A a \in Arcs(graph) : dist[a[2]] <= Plus(dist[a[1]], a[3])
            /\ \A v \in DOMAIN graph.adj \ Reach(graph, gres.start) : dist[v] = Inf

\* a run in which a tentative distance was lowered and a vertex stayed
\* unreachable
C7_Witness ==
    /\ gres.algo = "dijkstra" /\ NonNegWeights(graph)
    /\ \E v \in DOMAIN graph.adj \ {gres.start} :
          /\ \E i, j \in 1..Len(graph.adj[gres.start]) :
                /\ i < j
                /\ graph.adj[gres.start][i] = <<v, 2>>
                /\ graph.adj[gres.start][j] = <<v, 0>>
          /\ gres.out[v] = 0
    /\ \E v \in DOMAIN graph.adj : gres.out[v] = Inf

\* the simple cycles of g, as lists of distinct vertices, and their least weight
Injective(c) == \A i, j \in 1..Len(c) : i # j => c[i] # c[j]
ArcWeights(g, u, v) == {a[3] : a \in {b \in Arcs(g) : b[1] = u /\ b[2] = v}}
Least(S) == CHOOSE x \in S : \A y \in S : x <= y
NextOn(c, i) == c[(i % Len(c)) + 1]
Cycles(g) ==
    {c \in UNION {[1..k -> DOMAIN g.adj] : k \in 1..Cardinality(DOMAIN g.adj)} :
        /\ Injective(c)
        /\ \A i \in 1..Len(c) : ArcWeights(g, c[i], NextOn(c, i)) # {}}
RECURSIVE CycleWeight(_, _, _)
CycleWeight(g, c, i) ==
    IF i > Len(c) THEN 0
    ELSE Least(ArcWeights(g, c[i], NextOn(c, i))) + CycleWeight(g, c, i + 1)
NegativeCycles(g) == {c \in Cycles(g) : CycleWeight(g, c, 1) < 0}
NegativeCycleReachable(g, s) ==
    \E c \in NegativeCycles(g) : Elems(c) \subseteq Reach(g, s)

\* C8: when a negative-weight cycle can be reached from the source,
\* bellman_ford returns None and no distance map.
C8_BellmanFordReportsCycle ==
    (gres.algo = "bellman_ford" /\ NegativeCycleReachable(graph, gres.start)) =>
        gres.out = None

\* a reported negative cycle that the source reaches but does not lie on
C8_Witness ==
    /\ gres.algo = "bellman_ford" /\ gres.out = None
    /\ NegativeCycleReachable(graph, gres.start)
    /\ \A c \in NegativeCycles(graph) : gres.start \notin Elems(c)

\* the least weight of a path from s to v that repeats no vertex, infinite
\* when there is none
SimplePaths(g, s, v) ==
    {p \in UNION {[1..k -> DOMAIN g.adj] : k \in 1..Cardinality(DOMAIN g.adj)} :
        /\ Injective(p)
        /\ p[1] = s /\ p[Len(p)] = v
        /\ \A i \in 1..(Len(p) - 1) : ArcWeights(g, p[i], p[i + 1]) # {}}
RECURSIVE PathWeight(_, _, _)
PathWeight(g, p, i) ==
    IF i >= Len(p) THEN 0
    ELSE Least(ArcWeights(g, p[i], p[i + 1])) + PathWeight(g, p, i + 1)
ShortestPath(g, s, v) ==
    IF SimplePaths(g, s, v) = {} THEN Inf
    ELSE Least({PathWeight(g, p, 1) : p \in SimplePaths(g, s, v)})
ShortestPaths(g, s) == [v \in DOMAIN g.adj |-> ShortestPath(g, s, v)]

\* C28: when no negative-weight cycle can be reached from the source,
\* bellman_ford returns a distance map and not None, and the map gives every
\* reachable vertex the weight of its shortest path from the source and every
\* unreachable vertex infinity; negative edges and a negative cycle out of
\* reach of the source do not change this.
C28_BellmanFordShortestPaths ==
    (gres.algo = "bellman_ford" /\ ~NegativeCycleReachable(graph, gres.start)) =>
        /\ gres.out # None
        /\ gres.out[1] = ShortestPaths(graph, gres.start)
        /\ \A v \in DOMAIN graph.adj :
              gres.out[1][v] = Inf <=> v \notin Reach(graph, gres.start)

\* a directed graph in which the source reaches a vertex over a negative edge
\* while a negative self-loop lies out of its reach
C28_Witness ==
    /\ gres.algo = "bellman_ford" /\ directed
    /\ gres.out # None
    /\ NegativeCycles(graph) # {}
    /\ ~NegativeCycleReachable(graph, gres.start)
    /\ \E v \in DOMAIN graph.adj : gres.out[1][v] < 0
    /\ \E v \in DOMAIN graph.adj : gres.out[1][v] = Inf

\* C29: on every directed graph with non-negative edge weights and for every
\* source in the graph, dijkstra and bellman_ford return the same distance
\* map, and it is the map of the shortest-path weights.
C29_DijkstraAgreesWithBellmanFord ==
    (gres.algo \in {"dijkstra", "bellman_ford"} /\ directed /\ NonNegWeights(graph)) =>
        /\ dijkstra(graph, gres.start) = ShortestPaths(graph, gres.start)
        /\ bellman_ford(graph, gres.start) = Some(dijkstra(graph, gres.start))
        /\ gres.algo = "dijkstra" => gres.out = ShortestPaths(graph, gres.start)
        /\ gres.algo = "bellman_ford" => gres.out = Some(ShortestPaths(graph, gres.start))

\* a dijkstra run on a directed chain of two positive edges, stored so that
\* the edge leaving the source comes second
C29_Witness ==
    /\ gres.algo = "dijkstra" /\ directed /\ NonNegWeights(graph)
    /\ Cardinality(DOMAIN graph.adj) = 3
    /\ At(graph.keys, 0) # gres.start
    /\ \E v \in DOMAIN graph.adj : gres.out[v] = 4
    /\ bellman_ford(graph, gres.start) = Some(gres.out)

\* C9: on a directed graph topological_sort returns None when there is a
\* cycle, and otherwise lists every vertex once with u before v for every
\* edge (u, v).
HasCycle(g) == \E a \in Arcs(g) : a[1] \in Reach(g, a[2])
Pos(r, v) == CHOOSE i \in 1..Len(r) : r[i] = v
C9_TopologicalSort ==
    (gres.algo = "topological_sort" /\ directed) =>
        IF HasCycle(graph) THEN gres.out = None
        ELSE /\ gres.out # None
             /\ LET r == gres.out[1]
                IN  /\ Len(r) = Len(graph.keys)
                    /\ Elems(r) = DOMAIN graph.adj
                    /\ \A a \in Arcs(graph) : Pos(r, a[1]) < Pos(r, a[2])

\* an ordering of three vertices that differs from the order of insertion
C9_Witness ==
    /\ gres.algo = "topological_sort" /\ directed
    /\ gres.out # None
    /\ Len(gres.out[1]) = 3
    /\ Cardinality(Arcs(graph)) >= 2
    /\ gres.out[1] # graph.keys

\* ================================================================ strings
\* A str is the sequence of its characters; ord() of the alphabet's characters
Ord(c) == IF c = "a" THEN 97 ELSE IF c = "b" THEN 98 ELSE 99

\* pow(base, exp, mod) with exp >= -1: for exp = -1 the inverse of base
RECURSIVE pow_mod(_, _, _)
pow_mod(base, exp, mod) ==
    IF exp = -1 THEN CHOOSE x \in 0..(mod - 1) : (x * base) % mod = 1
    ELSE IF exp = 0 THEN 1 % mod
    ELSE (base * pow_mod(base, exp - 1, mod)) % mod

RECURSIVE compute_lps_loop(_, _, _, _)
compute_lps_loop(pat, i, length, lps) ==
    IF i < Len(pat)
    THEN IF At(pat, i) = At(pat, length)
         THEN compute_lps_loop(pat, i + 1, length + 1, SetAt(lps, i, length + 1))
         ELSE IF length # 0
              THEN compute_lps_loop(pat, i, At(lps, length - 1), lps)
              ELSE compute_lps_loop(pat, i + 1, length, SetAt(lps, i, 0))
    ELSE lps

compute_lps(pat) == compute_lps_loop(pat, 1, 0, zeros(Len(pat)))

\* kmp_search's while loop as it would be if a match restarted the pattern at
\* j = 0 instead of falling back to lps[j - 1]
RECURSIVE kmp_loop_restart(_, _, _, _, _, _)
kmp_loop_restart(txt, pat, lps, i, j, result) ==
    LET n == Len(txt)
        m == Len(pat)
    IN  IF i < n
        THEN IF j >= m THEN Raise("IndexError")
             ELSE LET hit == At(txt, i) = At(pat, j)
                      i1 == IF hit THEN i + 1 ELSE i
                      j1 == IF hit THEN j + 1 ELSE j
                  IN  IF j1 = m
                      THEN kmp_loop_restart(txt, pat, lps, i1, 0,
                                            Append(result, i1 - j1))
                      ELSE IF i1 < n /\ At(txt, i1) # At(pat, j1)
                           THEN IF j1 # 0
                                THEN kmp_loop_restart(txt, pat, lps, i1,
                                                      At(lps, j1 - 1), result)
                                ELSE kmp_loop_restart(txt, pat, lps, i1 + 1, j1, result)
                           ELSE kmp_loop_restart(txt, pat, lps, i1, j1, result)
        ELSE Return(result)

\* kmp_search's while loop; pattern[j] on an empty pattern raises IndexError
RECURSIVE kmp_loop(_, _, _, _, _, _)
kmp_loop(txt, pat, lps, i, j, result) ==
    LET n == Len(txt)
        m == Len(pat)
    IN  IF i < n
        THEN IF j >= m THEN Raise("IndexError")
             ELSE LET hit == At(txt, i) = At(pat, j)
                      i1 == IF hit THEN i + 1 ELSE i
                      j1 == IF hit THEN j + 1 ELSE j
                  IN  IF j1 = m
                      THEN kmp_loop(txt, pat, lps, i1, At(lps, j1 - 1),
                                    Append(result, i1 - j1))
                      ELSE IF i1 < n /\ At(txt, i1) # At(pat, j1)
                           THEN IF j1 # 0
                                THEN kmp_loop(txt, pat, lps, i1, At(lps, j1 - 1), result)
                                ELSE kmp_loop(txt, pat, lps, i1 + 1, j1, result)
                           ELSE kmp_loop(txt, pat, lps, i1, j1, result)
        ELSE Return(result)

kmp_search(txt, pat) == kmp_loop(txt, pat, compute_lps(pat), 0, 0, <<>>)

\* rabin_karp: the loop hashing the pattern and the first window; text[i]
\* past the end of the text raises IndexError
RECURSIVE rabin_karp_hashes(_, _, _, _, _, _, _)
rabin_karp_hashes(txt, pat, d, q, i, p, t) ==
    IF i >= Len(pat) THEN Return([p |-> p, t |-> t])
    ELSE IF i >= Len(txt) THEN Raise("IndexError")
    ELSE rabin_karp_hashes(txt, pat, d, q, i + 1,
                           (d * p + Ord(At(pat, i))) % q,
                           (d * t + Ord(At(txt, i))) % q)

\* the sliding window, i in range(n - m + 1)
RECURSIVE rabin_karp_slide(_, _, _, _, _, _, _, _, _)
rabin_karp_slide(txt, pat, d, q, h, i, p, t, result) ==
    LET n == Len(txt)
        m == Len(pat)
    IN  IF i >= n - m + 1 THEN result
        ELSE LET r1 == IF p = t /\ Slice(txt, i, i + m) = pat
                       THEN Append(result, i) ELSE result
                 t0 == IF i < n - m
                       THEN (d * (t - Ord(At(txt, i)) * h) + Ord(At(txt, i + m))) % q
                       ELSE t
                 t1 == IF t0 < 0 THEN t0 + q ELSE t0
             IN  rabin_karp_slide(txt, pat, d, q, h, i + 1, p, t1, r1)

rabin_karp(txt, pat) ==
    LET n == Len(txt)
        m == Len(pat)
        d == 256
        q == 101
        h == pow_mod(d, m - 1, q)
        hashes == rabin_karp_hashes(txt, pat, d, q, 0, 0, 0)
    IN  IF hashes.exc # "none" THEN hashes
        ELSE Return(rabin_karp_slide(txt, pat, d, q, h, 0,
                                     hashes.ret.p, hashes.ret.t, <<>>))

\* longest_palindromic_substring: expand_around_center(left, right)
RECURSIVE expand_around_center(_, _, _)
expand_around_center(s, left, right) ==
    IF left >= 0 /\ right < Len(s) /\ At(s, left) = At(s, right)
    THEN expand_around_center(s, left - 1, right + 1)
    ELSE right - left - 1

\* the loop over the centres as it would be if only the odd centres (i, i)
\* were expanded
RECURSIVE palindrome_loop_odd_only(_, _, _, _)
palindrome_loop_odd_only(s, i, start, end) ==
    IF i >= Len(s) THEN <<start, end>>
    ELSE LET max_len == expand_around_center(s, i, i)
         IN  IF max_len > end - start
             THEN palindrome_loop_odd_only(s, i + 1, i - ((max_len - 1) \div 2),
                                           i + (max_len \div 2))
             ELSE palindrome_loop_odd_only(s, i + 1, start, end)

\* the loop over the centres, i in range(len(s)), carrying start and end
RECURSIVE palindrome_loop(_, _, _, _)
palindrome_loop(s, i, start, end) ==
    IF i >= Len(s) THEN <<start, end>>
    ELSE LET len1 == expand_around_center(s, i, i)
             len2 == expand_around_center(s, i, i + 1)
             max_len == IF len1 > len2 THEN len1 ELSE len2
         IN  IF max_len > end - start
             THEN palindrome_loop(s, i + 1, i - ((max_len - 1) \div 2),
                                  i + (max_len \div 2))
             ELSE palindrome_loop(s, i + 1, start, end)

\* the same loop, giving the (start, end) it holds after each centre
RECURSIVE palindrome_scan(_, _, _, _)
palindrome_scan(s, i, start, end) ==
    IF i >= Len(s) THEN <<>>
    ELSE LET len1 == expand_around_center(s, i, i)
             len2 == expand_around_center(s, i, i + 1)
             max_len == IF len1 > len2 THEN len1 ELSE len2
             held == IF max_len > end - start
                     THEN <<i - ((max_len - 1) \div 2), i + (max_len \div 2)>>
                     ELSE <<start, end>>
         IN  <<held>> \o palindrome_scan(s, i + 1, held[1], held[2])

longest_palindromic_substring(s) ==
    IF s = <<>> THEN <<>>
    ELSE LET se == palindrome_loop(s, 0, 0, 0)
         IN  Slice(s, se[1], se[2] + 1)

\* ------------------------------------------------- the string state machine
Matchers == {"kmp_search", "rabin_karp"}

StringInit ==
    /\ SortIdle /\ SearchIdle /\ BSTEmpty /\ HeapsEmpty /\ GraphEmpty /\ RestIdle
    /\ text \in SeqsUpTo(Alphabet, MaxText)
    /\ pattern \in SeqsUpTo(Alphabet, MaxPattern)
    /\ matches = [f \in Matchers |-> NotRun]
    /\ palin = NotRun
    /\ palin_steps = NotRun

StoreMatches(f, outcome) ==
    /\ matches[f] = NotRun
    /\ matches' = [matches EXCEPT ![f] = outcome]
    /\ UNCHANGED <<sortVars, searchVars, bstVars, heapVars, graphVars,
                   text, pattern, palin, palin_steps, restVars>>

CallKmpSearch == StoreMatches("kmp_search", kmp_search(text, pattern))
CallRabinKarp == StoreMatches("rabin_karp", rabin_karp(text, pattern))

CallLongestPalindromicSubstring ==
    /\ palin = NotRun
    /\ palin' = Return(longest_palindromic_substring(text))
    /\ palin_steps' = Return(palindrome_scan(text, 0, 0, 0))
    /\ UNCHANGED <<sortVars, searchVars, bstVars, heapVars, graphVars,
                   text, pattern, matches, restVars>>

StringNext ==
    \/ CallKmpSearch
    \/ CallRabinKarp
    \/ CallLongestPalindromicSubstring

SpecString == StringInit /\ [][StringNext]_vars

\* C10: for every text and pattern, kmp_search and rabin_karp return the same
\* list of match positions, the empty list included when the pattern is longer
\* than the text.
C10_KmpEqualsRabinKarp ==
    (\A f \in Matchers : matches[f] # NotRun) =>
        /\ matches["kmp_search"].exc = "none"
        /\ matches["rabin_karp"].exc = "none"
        /\ matches["kmp_search"].ret = matches["rabin_karp"].ret

\* C11: for every text and every non-empty pattern, kmp_search returns, in
\* ascending order and without duplicates, exactly the indices i with
\* text[i:i+len(pattern)] == pattern, overlapping occurrences included.
Occurrences(txt, pat) ==
    {i \in 0..Len(txt) : /\ i + Len(pat) <= Len(txt)
                         /\ \A k \in 1..Len(pat) : txt[i + k] = pat[k]}

StrictlyAscending(s) == \A i, j \in 1..Len(s) : i < j => s[i] < s[j]

C11_KmpFindsAllOccurrences ==
    (matches["kmp_search"] # NotRun /\ pattern # <<>>) =>
        /\ matches["kmp_search"].exc = "none"
        /\ StrictlyAscending(matches["kmp_search"].ret)
        /\ Elems(matches["kmp_search"].ret) = Occurrences(text, pattern)

\* two overlapping occurrences of "aa" in "aaab" have been reported
C11_Witness ==
    /\ text = <<"a", "a", "a", "b">>
    /\ pattern = <<"a", "a">>
    /\ matches["kmp_search"] = Return(<<0, 1>>)

\* C12: when a string has several palindromic substrings of the maximal
\* length, longest_palindromic_substring returns the leftmost one, the one
\* with the smallest start index.
IsPalindrome(s) == \A i \in 1..Len(s) : s[i] = s[Len(s) + 1 - i]

PalindromeSpans(s) ==
    {se \in (1..Len(s)) \X (1..Len(s)) :
        se[1] <= se[2] /\ IsPalindrome(SubSeq(s, se[1], se[2]))}

LeftmostLongestPalindrome(s) ==
    IF s = <<>> THEN <<>>
    ELSE LET best == CHOOSE se \in PalindromeSpans(s) :
                        \A o \in PalindromeSpans(s) :
                            \/ o[2] - o[1] < se[2] - se[1]
                            \/ o[2] - o[1] = se[2] - se[1] /\ se[1] <= o[1]
         IN  SubSeq(s, best[1], best[2])

C12_LeftmostLongestPalindrome ==
    palin # NotRun => palin = Return(LeftmostLongestPalindrome(text))

\* C30: for every string s, longest_palindromic_substring(s) returns a
\* contiguous substring of s that is a palindrome and as long as the longest
\* palindromic substring of s, the empty string for empty s; the length of
\* the best span held never decreases from one centre to the next.
LongestPalindromeLen(s) ==
    IF s = <<>> THEN 0
    ELSE LET lens == {se[2] - se[1] + 1 : se \in PalindromeSpans(s)}
         IN  CHOOSE n \in lens : \A m \in lens : m <= n

SpanLen(se) == se[2] - se[1] + 1

C30_LongestPalindromeLength ==
    palin # NotRun =>
        /\ palin.exc = "none"
        /\ \E i \in 1..(Len(text) + 1) : \E j \in 0..Len(text) :
              palin.ret = SubSeq(text, i, j)
        /\ IsPalindrome(palin.ret)
        /\ Len(palin.ret) = LongestPalindromeLen(text)
        /\ LET held == <<<<0, 0>>>> \o palin_steps.ret
           IN  /\ \A k \in 1..(Len(held) - 1) : SpanLen(held[k]) <= SpanLen(held[k + 1])
               /\ text # <<>> =>
                     palin.ret = Slice(text, held[Len(held)][1], held[Len(held)][2] + 1)

\* a full-length text whose longest palindrome has even length and is found
\* after an equally long one was held
C30_Witness ==
    /\ palin # NotRun
    /\ Len(text) = MaxText
    /\ Len(palin.ret) = 2
    /\ palin.ret # SubSeq(text, 1, 2)
    /\ IsPalindrome(SubSeq(text, 1, 2))
    /\ \E k \in 1..(Len(palin_steps.ret) - 1) :
          /\ palin_steps.ret[k] # palin_steps.ret[k + 1]
          /\ SpanLen(palin_steps.ret[k]) = SpanLen(palin_steps.ret[k + 1])

\* ======================================================== Stack and Queue
\* Each method is given the items list and returns what the call returns
\* together with the items list it leaves.
Stack_is_empty(items) == Len(items) = 0
Stack_size(items) == Len(items)
Stack_push(items, item) == [out |-> Return(None), items |-> Append(items, item)]

\* Stack.pop as it would be without the is_empty test: list.pop() on an
\* empty list raises IndexError
Stack_pop_unguarded(items) ==
    IF Len(items) = 0
    THEN [out |-> Raise("IndexError"), items |-> items]
    ELSE [out |-> Return(Some(items[Len(items)])),
          items |-> SubSeq(items, 1, Len(items) - 1)]

Stack_pop(items) ==
    IF ~Stack_is_empty(items)
    THEN [out |-> Return(Some(items[Len(items)])),
          items |-> SubSeq(items, 1, Len(items) - 1)]
    ELSE [out |-> Return(None), items |-> items]

Stack_peek(items) ==
    IF ~Stack_is_empty(items)
    THEN [out |-> Return(Some(items[Len(items)])), items |-> items]
    ELSE [out |-> Return(None), items |-> items]

Queue_is_empty(items) == Len(items) = 0
Queue_size(items) == Len(items)
Queue_enqueue(items, item) == [out |-> Return(None), items |-> Append(items, item)]

\* Queue.dequeue as it would be if it took the item from the right end
Queue_dequeue_right(items) ==
    IF ~Queue_is_empty(items)
    THEN [out |-> Return(Some(items[Len(items)])),
          items |-> SubSeq(items, 1, Len(items) - 1)]
    ELSE [out |-> Return(None), items |-> items]

Queue_dequeue(items) ==
    IF ~Queue_is_empty(items)
    THEN [out |-> Return(Some(Head(items))), items |-> Tail(items)]
    ELSE [out |-> Return(None), items |-> items]

Queue_front(items) ==
    IF ~Queue_is_empty(items)
    THEN [out |-> Return(Some(Head(items))), items |-> items]
    ELSE [out |-> Return(None), items |-> items]

\* -------------------------------------------- the Stack / Queue state machine
\* The caller hands over items it can tell apart: the k-th item handed to
\* either container is the pair <<k, value>>.
StackQueueInit ==
    /\ SortIdle /\ SearchIdle /\ BSTEmpty /\ HeapsEmpty /\ GraphEmpty /\ StringIdle
    /\ StackQueueEmpty /\ HashTableIdle /\ PuzzleIdle /\ GreedyIdle /\ BubbleIdle

Called(op, r, before, held) ==
    [op |-> op, out |-> r.out, before |-> before, held |-> held]

\* what a pop / dequeue that returned r leaves held
Released(held, r) ==
    IF r.out.exc = "none" /\ r.out.ret # None THEN held \ {r.out.ret[1]} ELSE held

StackCall(op, r, held) ==
    /\ stack_items' = r.items
    /\ stackheld' = held
    /\ sqop' = Called(op, r, stack_items, stackheld)
    /\ UNCHANGED <<queue_items, queueheld>>

QueueCall(op, r, held) ==
    /\ queue_items' = r.items
    /\ queueheld' = held
    /\ sqop' = Called(op, r, queue_items, queueheld)
    /\ UNCHANGED <<stack_items, stackheld>>

StackQueueFrame ==
    UNCHANGED <<sortVars, searchVars, bstVars, heapVars, graphVars, stringVars,
                hashVars, puzzleVars, greedyVars, bubble_run>>

StackPush(v) ==
    /\ pushed < MaxPushes
    /\ pushed' = pushed + 1
    /\ LET item == <<pushed + 1, v>>
       IN  StackCall("push", Stack_push(stack_items, item), stackheld \cup {item})
    /\ StackQueueFrame

StackPop ==
    /\ LET r == Stack_pop(stack_items)
       IN  StackCall("pop", r, Released(stackheld, r))
    /\ UNCHANGED pushed
    /\ StackQueueFrame

StackPeek ==
    /\ StackCall("peek", Stack_peek(stack_items), stackheld)
    /\ UNCHANGED pushed
    /\ StackQueueFrame

QueueEnqueue(v) ==
    /\ pushed < MaxPushes
    /\ pushed' = pushed + 1
    /\ LET item == <<pushed + 1, v>>
       IN  QueueCall("enqueue", Queue_enqueue(queue_items, item), queueheld \cup {item})
    /\ StackQueueFrame

QueueDequeue ==
    /\ LET r == Queue_dequeue(queue_items)
       IN  QueueCall("dequeue", r, Released(queueheld, r))
    /\ UNCHANGED pushed
    /\ StackQueueFrame

QueueFront ==
    /\ QueueCall("front", Queue_front(queue_items), queueheld)
    /\ UNCHANGED pushed
    /\ StackQueueFrame

StackQueueNext ==
    \/ \E v \in ItemValues : StackPush(v)
    \/ StackPop
    \/ StackPeek
    \/ \E v \in ItemValues : QueueEnqueue(v)
    \/ QueueDequeue
    \/ QueueFront

SpecStackQueue == StackQueueInit /\ [][StackQueueNext]_vars

\* the items of the container the last call was made on
CalledOn ==
    IF sqop.op \in {"push", "pop", "peek"} THEN stack_items ELSE queue_items

\* C13: whenever the container is empty, Stack.pop, Stack.peek, Queue.dequeue
\* and Queue.front return None without raising and leave the container empty.
C13_EmptyAccessReturnsNone ==
    (sqop.op \in {"pop", "peek", "dequeue", "front"} /\ sqop.before = <<>>) =>
        /\ sqop.out = Return(None)
        /\ CalledOn = <<>>

\* a dequeue found the Queue empty, returned None and left it empty
C13_Witness ==
    /\ sqop.op = "dequeue"
    /\ sqop.before = <<>>
    /\ sqop.out = Return(None)
    /\ queue_items = <<>>
    /\ pushed >= 2
    /\ queueheld = {}

\* C14: after any interleaving of insertions and removals, Stack.pop returns
\* the most recently pushed item not yet popped and Queue.dequeue the earliest
\* enqueued item not yet dequeued; peek / front return that same item and
\* leave size() as it was.
Latest(held) == CHOOSE x \in held : \A y \in held : y[1] <= x[1]
Earliest(held) == CHOOSE x \in held : \A y \in held : x[1] <= y[1]

C14_LifoAndFifo ==
    /\ (sqop.op \in {"pop", "peek"} /\ sqop.held # {}) =>
            sqop.out = Return(Some(Latest(sqop.held)))
    /\ (sqop.op \in {"dequeue", "front"} /\ sqop.held # {}) =>
            sqop.out = Return(Some(Earliest(sqop.held)))
    /\ sqop.op \in {"peek", "front"} =>
            /\ Len(CalledOn) = Len(sqop.before)
            /\ Len(CalledOn) = Cardinality(sqop.held)
    /\ sqop.op = "pop" => stackheld = Elems(stack_items)
    /\ sqop.op = "dequeue" => queueheld = Elems(queue_items)

\* a dequeue after an earlier dequeue and a later enqueue: the Queue held the
\* second and the third item enqueued and gave out the second
C14_Witness ==
    /\ sqop.op = "dequeue"
    /\ Cardinality(sqop.held) = 2
    /\ \E x \in sqop.held : x[1] >= 3
    /\ \E v \in ItemValues : sqop.out = Return(Some(<<2, v>>))
    /\ Len(queue_items) = 1

\* ================================================================ HashTable
\* hash() of a Python int: the int itself, except that hash(-1) is -2
Hash(key) == IF key = -1 THEN -2 ELSE key

\* HashTable.__init__: size empty buckets
new_table(sz) == [i \in 1..sz |-> <<>>]

\* HashTable._hash
hash_index(sz, key) == Hash(key) % sz

\* the position of the first entry of bucket with key k, from position i on,
\* or -1
RECURSIVE bucket_find(_, _, _)
bucket_find(bucket, key, i) ==
    IF i >= Len(bucket) THEN -1
    ELSE IF At(bucket, i)[1] = key THEN i
    ELSE bucket_find(bucket, key, i + 1)

\* del bucket[i]
bucket_del(bucket, i) == Slice(bucket, 0, i) \o Slice(bucket, i + 1, Len(bucket))

\* HashTable.put as it would be if it appended without looking for the key
put_append_always(tbl, sz, key, value) ==
    LET index == hash_index(sz, key)
    IN  SetAt(tbl, index, Append(At(tbl, index), <<key, value>>))

put(tbl, sz, key, value) ==
    LET index == hash_index(sz, key)
        i == bucket_find(At(tbl, index), key, 0)
    IN  IF i >= 0
        THEN SetAt(tbl, index, SetAt(At(tbl, index), i, <<key, value>>))
        ELSE SetAt(tbl, index, Append(At(tbl, index), <<key, value>>))

get(tbl, sz, key) ==
    LET index == hash_index(sz, key)
        i == bucket_find(At(tbl, index), key, 0)
    IN  IF i >= 0 THEN Some(At(At(tbl, index), i)[2]) ELSE None

\* HashTable.remove as it would be if it deleted the first entry of the
\* key's bucket whatever its key
remove_first_entry(tbl, sz, key) ==
    LET index == hash_index(sz, key)
    IN  IF Len(At(tbl, index)) > 0
        THEN [ret |-> TRUE, table |-> SetAt(tbl, index, bucket_del(At(tbl, index), 0))]
        ELSE [ret |-> FALSE, table |-> tbl]

remove(tbl, sz, key) ==
    LET index == hash_index(sz, key)
        i == bucket_find(At(tbl, index), key, 0)
    IN  IF i >= 0
        THEN [ret |-> TRUE, table |-> SetAt(tbl, index, bucket_del(At(tbl, index), i))]
        ELSE [ret |-> FALSE, table |-> tbl]

\* ------------------------------------------------ the HashTable state machine
RECURSIVE EntryCount(_, _)
EntryCount(tbl, i) ==
    IF i >= Len(tbl) THEN 0 ELSE Len(At(tbl, i)) + EntryCount(tbl, i + 1)

HashTableInit ==
    /\ SortIdle /\ SearchIdle /\ BSTEmpty /\ HeapsEmpty /\ GraphEmpty /\ StringIdle
    /\ StackQueueEmpty /\ PuzzleIdle /\ GreedyIdle /\ BubbleIdle
    /\ size \in 1..MaxSize
    /\ table = new_table(size)
    /\ absmap = [k \in HashKeys |-> None]
    /\ hop = NoCall

HashCalled(op, key, out) ==
    [op |-> op, key |-> key, out |-> out, present |-> absmap[key] # None]

HashTableFrame ==
    UNCHANGED <<sortVars, searchVars, bstVars, heapVars, graphVars, stringVars,
                stackVars, puzzleVars, greedyVars, bubble_run, size>>

HashPut(key, value) ==
    /\ EntryCount(table, 0) < MaxEntries
    /\ table' = put(table, size, key, value)
    /\ absmap' = [absmap EXCEPT ![key] = Some(value)]
    /\ hop' = HashCalled("put", key, Return(None))
    /\ HashTableFrame

HashGet(key) ==
    /\ hop' = HashCalled("get", key, Return(get(table, size, key)))
    /\ UNCHANGED <<table, absmap>>
    /\ HashTableFrame

HashRemove(key) ==
    /\ LET r == remove(table, size, key)
       IN  /\ table' = r.table
           /\ hop' = HashCalled("remove", key, Return(r.ret))
    /\ absmap' = [absmap EXCEPT ![key] = None]
    /\ HashTableFrame

HashTableNext ==
    \/ \E key \in HashKeys, value \in HashValues : HashPut(key, value)
    \/ \E key \in HashKeys : HashGet(key)
    \/ \E key \in HashKeys : HashRemove(key)

SpecHashTable == HashTableInit /\ [][HashTableNext]_vars

\* C15: after any sequence of put and remove calls no bucket contains two
\* entries with equal keys, every entry (k, v) is stored in bucket
\* hash(k) mod size, and the number of buckets is the size fixed at
\* construction.
C15_BucketsWellFormed ==
    /\ Len(table) = size
    /\ \A b \in 1..Len(table) :
          /\ \A i, j \in 1..Len(table[b]) :
                i # j => table[b][i][1] # table[b][j][1]
          /\ \A i \in 1..Len(table[b]) : b - 1 = Hash(table[b][i][1]) % size

\* a put has overwritten a key present in a bucket that holds two entries
C15_Witness ==
    /\ hop.op = "put"
    /\ hop.present
    /\ \E b \in 1..Len(table) :
          /\ Len(table[b]) = 2
          /\ \E i \in 1..2 : table[b][i][1] = hop.key

\* C16: HashTable behaves as a key-to-value map, also when keys collide in
\* one bucket: get(k) returns the value of the latest put(k, v) not followed
\* by remove(k) and None otherwise, remove(k) returns True exactly when k was
\* present, and put or remove on k changes the value of no other key.
C16_BehavesAsMap ==
    /\ \A k \in HashKeys : get(table, size, k) = absmap[k]
    /\ hop.op = "get" => hop.out = Return(absmap[hop.key])
    /\ hop.op = "remove" => hop.out = Return(hop.present)

\* a remove returned True for a key whose bucket still holds a colliding key
C16_Witness ==
    /\ hop.op = "remove"
    /\ hop.out = Return(TRUE)
    /\ \E k \in HashKeys \ {hop.key} :
          /\ hash_index(size, k) = hash_index(size, hop.key)
          /\ absmap[k] # None
          /\ get(table, size, k) = absmap[k]

\* C17: for an undirected Graph built by any add_vertex / add_edge calls,
\* get_edges() never contains both (u, v, w) and (v, u, w) for distinct u and
\* v: each add_edge call between them is listed once, in one direction only.
Listed(edges, e) == Cardinality({k \in 1..Len(edges) : edges[k] = e})

\* the add_edge calls made between u and v with weight w, in either argument
\* order: each one appended (v, w) to u's adjacency list
EdgesAdded(g, u, v, w) ==
    IF u \in DOMAIN g.adj
    THEN Cardinality({k \in 1..Len(g.adj[u]) : g.adj[u][k] = <<v, w>>})
    ELSE 0

C17_UndirectedEdgesListedOnce ==
    (gres.algo = "get_edges" /\ ~directed) =>
        \A u, v \in Vertices : \A w \in Weights :
            u # v =>
                /\ ~(Listed(gres.out, <<u, v, w>>) > 0 /\ Listed(gres.out, <<v, u, w>>) > 0)
                /\ Listed(gres.out, <<u, v, w>>) + Listed(gres.out, <<v, u, w>>)
                       = EdgesAdded(graph, u, v, w)

\* two add_edge calls between the same two vertices with the same weight are
\* both listed, in the same direction
C17_Witness ==
    /\ gres.algo = "get_edges" /\ ~directed
    /\ \E u, v \in Vertices : \E w \in Weights :
          /\ u # v
          /\ EdgesAdded(graph, v, u, w) = 2
          /\ gres.out = << <<u, v, w>>, <<u, v, w>> >>

\* C18: no search operation raises on an empty input: called with an empty
\* list, jump_search, binary_search and linear_search each return -1 instead
\* of failing (as the greedy and string operations are to return an empty
\* result).
C18_NoRaiseOnEmptyInput ==
    arr = <<>> =>
        \A f \in AllSearches : found[f] # NotRun => found[f] = Return(-1)

\* ============================================================== coin_change
\* [float('inf')] * n
infs(n) == [i \in 1..n |-> Inf]

\* the inner loop as it would be if it stopped at the first coin that fits
RECURSIVE coin_change_first_fit(_, _, _, _)
coin_change_first_fit(dp, cs, i, j) ==
    IF j >= Len(cs) THEN dp
    ELSE LET coin == At(cs, j)
         IN  IF i >= coin
             THEN SetAt(dp, i, min(At(dp, i), Plus(At(dp, i - coin), 1)))
             ELSE coin_change_first_fit(dp, cs, i, j + 1)

\* the inner loop, for coin in coins, at amount i
RECURSIVE coin_change_coins(_, _, _, _)
coin_change_coins(dp, cs, i, j) ==
    IF j >= Len(cs) THEN dp
    ELSE LET coin == At(cs, j)
         IN  IF i >= coin
             THEN coin_change_coins(
                      SetAt(dp, i, min(At(dp, i), Plus(At(dp, i - coin), 1))),
                      cs, i, j + 1)
             ELSE coin_change_coins(dp, cs, i, j + 1)

\* the outer loop, i in range(1, amount + 1)
RECURSIVE coin_change_amounts(_, _, _, _)
coin_change_amounts(dp, cs, amt, i) ==
    IF i > amt THEN dp
    ELSE coin_change_amounts(coin_change_coins(dp, cs, i, 0), cs, amt, i + 1)

coin_change(cs, amt) ==
    LET dp == coin_change_amounts(SetAt(infs(amt + 1), 0, 0), cs, amt, 1)
    IN  IF At(dp, amt) # Inf THEN At(dp, amt) ELSE -1

\* ================================================================= n_queens
\* [['.'] * n for _ in range(n)]
empty_board(n) == [r \in 1..n |-> [c \in 1..n |-> "."]]

\* ''.join(row), and [''.join(row) for row in board] from row i on
RECURSIVE join(_)
join(row) == IF row = <<>> THEN "" ELSE Head(row) \o join(Tail(row))

\* is_valid's loop over the column, i in range(row)
RECURSIVE column_clear(_, _, _, _)
column_clear(board, row, col, i) ==
    IF i >= row THEN TRUE
    ELSE IF At(At(board, i), col) = "Q" THEN FALSE
    ELSE column_clear(board, row, col, i + 1)

\* is_valid's loops up a diagonal from (i, j), j moving by dj
RECURSIVE diagonal_clear(_, _, _, _, _)
diagonal_clear(board, n, i, j, dj) ==
    IF i >= 0 /\ j >= 0 /\ j < n
    THEN IF At(At(board, i), j) = "Q" THEN FALSE
         ELSE diagonal_clear(board, n, i - 1, j + dj, dj)
    ELSE TRUE

\* is_valid as it would be without the check of the upper-right diagonal
is_valid_left_only(board, n, row, col) ==
    /\ column_clear(board, row, col, 0)
    /\ diagonal_clear(board, n, row - 1, col - 1, -1)

is_valid(board, n, row, col) ==
    /\ column_clear(board, row, col, 0)
    /\ diagonal_clear(board, n, row - 1, col - 1, -1)
    /\ diagonal_clear(board, n, row - 1, col + 1, 1)

\* backtrack(row) and its loop over col: each gives the boards it appends to
\* result, in the order it appends them; the board comes back from each call
\* as it went in
RECURSIVE join_rows(_, _)
join_rows(board, i) ==
    IF i >= Len(board) THEN <<>>
    ELSE <<join(At(board, i))>> \o join_rows(board, i + 1)

RECURSIVE backtrack(_, _, _)
RECURSIVE backtrack_cols(_, _, _, _)
backtrack(board, n, row) ==
    IF row = n
    THEN <<join_rows(board, 0)>>
    ELSE backtrack_cols(board, n, row, 0)

backtrack_cols(board, n, row, col) ==
    IF col >= n THEN <<>>
    ELSE (IF is_valid(board, n, row, col)
          THEN backtrack([board EXCEPT ![row + 1][col + 1] = "Q"], n, row + 1)
          ELSE <<>>)
         \o backtrack_cols(board, n, row, col + 1)

n_queens(n) == backtrack(empty_board(n), n, 0)

\* ------------------------------------- the coin_change / n_queens state machine
PuzzleInit ==
    /\ SortIdle /\ SearchIdle /\ BSTEmpty /\ HeapsEmpty /\ GraphEmpty /\ StringIdle
    /\ StackQueueEmpty /\ HashTableIdle /\ GreedyIdle /\ BubbleIdle
    /\ coins \in SeqsUpTo(Denominations, MaxCoins)
    /\ amount \in 0..MaxAmount
    /\ change = NotRun
    /\ queensN \in QueenSizes
    /\ queens = NotRun

PuzzleFrame ==
    UNCHANGED <<sortVars, searchVars, bstVars, heapVars, graphVars, stringVars,
                stackVars, hashVars, greedyVars, bubble_run, coins, amount, queensN>>

CallCoinChange ==
    /\ change = NotRun
    /\ change' = Return(coin_change(coins, amount))
    /\ UNCHANGED queens
    /\ PuzzleFrame

\* C19: for positive denominations and an amount >= 0, coin_change returns
\* the minimum number of coins, each usable any number of times, that sum to
\* exactly the amount; 0 for amount 0; and -1 exactly when no combination
\* sums to the amount. coin_change([1,2,5], 11) is 3.
RECURSIVE SumsOf(_, _, _)
SumsOf(cs, amt, k) ==
    IF k = 0 THEN {0}
    ELSE {t + c : t \in SumsOf(cs, amt, k - 1), c \in Elems(cs)} \cap 0..amt

FewestCoins(cs, amt) ==
    LET ks == {k \in 0..amt : amt \in SumsOf(cs, amt, k)}
    IN  IF ks = {} THEN -1 ELSE CHOOSE k \in ks : \A o \in ks : k <= o

C19_CoinChangeIsMinimal ==
    change # NotRun =>
        /\ change = Return(FewestCoins(coins, amount))
        /\ amount = 0 => change.ret = 0
        /\ (coins = <<1, 2, 5>> /\ amount = 11) => change.ret = 3

\* coin_change([1,2,5], 11) has returned 3
C19_Witness ==
    /\ coins = <<1, 2, 5>>
    /\ amount = 11
    /\ change = Return(3)

CallNQueens ==
    /\ queens = NotRun
    /\ queens' = Return(n_queens(queensN))
    /\ UNCHANGED change
    /\ PuzzleFrame

PuzzleNext ==
    \/ CallCoinChange
    \/ CallNQueens

SpecPuzzle == PuzzleInit /\ [][PuzzleNext]_vars

\* C20: for every n >= 1, n_queens(n) returns each valid placement exactly
\* once and nothing else: one queen per row, no two queens in one column or on
\* one diagonal, and every such placement is returned; n_queens(4) has exactly
\* 2 solutions.
Abs(x) == IF x < 0 THEN -x ELSE x

\* the placements of one queen in each of the first k rows, as the column of
\* each row, in which no two queens attack each other
RECURSIVE Placements(_, _)
Placements(n, k) ==
    IF k = 0 THEN {<<>>}
    ELSE {Append(q, c) : q \in Placements(n, k - 1), c \in 1..n} \cap
         {q \in [1..k -> 1..n] :
             \A i, j \in 1..k :
                 i < j => /\ q[i] # q[j]
                          /\ Abs(q[i] - q[j]) # j - i}

\* the board as n_queens prints it: row r has its Q in column q[r]
BoardOf(n, q) ==
    [r \in 1..n |-> join([c \in 1..n |-> IF c = q[r] THEN "Q" ELSE "."])]

C20_NQueensExactlyTheSolutions ==
    queens # NotRun =>
        /\ queens.exc = "none"
        /\ Elems(queens.ret) = {BoardOf(queensN, q) : q \in Placements(queensN, queensN)}
        /\ Len(queens.ret) = Cardinality(Elems(queens.ret))
        /\ queensN = 4 => Len(queens.ret) = 2

\* n_queens(4) has returned its two boards
C20_Witness ==
    /\ queensN = 4
    /\ queens = Return(<< <<".Q..", "...Q", "Q...", "..Q.">>,
                          <<"..Q.", "Q...", "...Q", ".Q..">> >>)

\* C21: for every non-empty ascending list a, duplicates allowed, and every
\* value x, jump_search(a, x) ends without an out-of-range access and returns
\* an index holding x if x occurs in a, and -1 otherwise, also when x is
\* larger than every element.
C21_JumpSearchFinds ==
    (IsSorted(arr) /\ arr # <<>> /\ found["jump_search"] # NotRun) =>
        /\ found["jump_search"].exc = "none"
        /\ LET r == found["jump_search"].ret
           IN  IF target \in Elems(arr)
               THEN r \in 0..(Len(arr) - 1) /\ At(arr, r) = target
               ELSE r = -1

\* jump_search has found a target that occurs only as the last element of a
\* longest ascending list: it jumped over several blocks of more than one
\* element, the last of them cut short by the end of the list, and then
\* scanned forward inside that block
C21_Witness ==
    /\ IsSorted(arr) /\ Len(arr) = MaxSortedLen
    /\ int_sqrt(Len(arr)) > 1
    /\ Len(arr) % int_sqrt(Len(arr)) > 1
    /\ \E i \in 1..(Len(arr) - 1) : arr[i] = arr[i + 1]
    /\ arr[Len(arr)] = target
    /\ arr[Len(arr) - 1] < target
    /\ found["jump_search"] = Return(Len(arr) - 1)

\* C22: for every graph, directed or undirected, with cycles, self-loops and
\* parallel edges allowed, and every source vertex in it, bfs and dfs each
\* return a list that starts with the source and contains every vertex
\* reachable from the source exactly once and no unreachable vertex.
C22_TraversalsVisitReachableOnce ==
    gres.algo \in {"bfs", "dfs"} =>
        /\ Len(gres.out) >= 1
        /\ gres.out[1] = gres.start
        /\ Elems(gres.out) = Reach(graph, gres.start)
        /\ \A i, j \in 1..Len(gres.out) : i # j => gres.out[i] # gres.out[j]

\* a dfs from a vertex with a self-loop that reaches one more vertex, in a
\* graph that has a vertex the source does not reach
C22_Witness ==
    /\ gres.algo = "dfs"
    /\ Len(gres.out) = 2
    /\ \E k \in 1..Len(graph.adj[gres.start]) :
          graph.adj[gres.start][k][1] = gres.start
    /\ DOMAIN graph.adj # Reach(graph, gres.start)

\* =========================================================== huffman_coding
\* A heap entry [weight, [symbol, code], ...] is the record of its weight
\* lo[0] and its pairs lo[1:]; a code is the sequence of its characters.
\* [[weight, [symbol, ""]] for symbol, weight in freq.items()]
huffman_entries(fr) ==
    {[weight |-> fr[k][2], pairs |-> << <<fr[k][1], <<>>>> >>] : k \in 1..Len(fr)}

\* list comparison of two entries: the weights, then the first pairs, whose
\* symbols differ
entry_less(x, y) ==
    \/ x.weight < y.weight
    \/ x.weight = y.weight /\ Ord(x.pairs[1][1]) < Ord(y.pairs[1][1])

\* heapq.heappop on the heap of entries: the least entry leaves the heap
huffman_pop(heap) ==
    LET least == CHOOSE x \in heap : \A y \in heap \ {x} : entry_less(x, y)
    IN  [item |-> least, heap |-> heap \ {least}]

\* for pair in entry[1:]: pair[1] = bit + pair[1]
prefix_codes(pairs, bit) ==
    [k \in 1..Len(pairs) |-> <<pairs[k][1], <<bit>> \o pairs[k][2]>>]

\* the entry pushed back as it would be if both halves were given the bit 0
huffman_merge_same_bit(lo, hi) ==
    [weight |-> lo.weight + hi.weight,
     pairs |-> prefix_codes(lo.pairs, "0") \o prefix_codes(hi.pairs, "0")]

\* the body of the while loop after the two pops: the entry pushed back
huffman_merge(lo, hi) ==
    [weight |-> lo.weight + hi.weight,
     pairs |-> prefix_codes(lo.pairs, "0") \o prefix_codes(hi.pairs, "1")]

RECURSIVE huffman_loop(_)
huffman_loop(heap) ==
    IF Cardinality(heap) > 1
    THEN LET first == huffman_pop(heap)
             second == huffman_pop(first.heap)
         IN  huffman_loop(second.heap \cup {huffman_merge(first.item, second.item)})
    ELSE heap

\* the sort key (len(p[-1]), p) of a pair p = [symbol, code]
pair_less(p, q) ==
    \/ Len(p[2]) < Len(q[2])
    \/ Len(p[2]) = Len(q[2]) /\ Ord(p[1]) < Ord(q[1])

\* sorted(pairs, key=...): the pairs have distinct symbols
RECURSIVE sorted_pairs(_)
sorted_pairs(pairs) ==
    IF pairs = {} THEN <<>>
    ELSE LET least == CHOOSE p \in pairs : \A q \in pairs \ {p} : pair_less(p, q)
         IN  <<least>> \o sorted_pairs(pairs \ {least})

\* heap[0] of an empty heap raises IndexError
huffman_coding(fr) ==
    LET heap == huffman_loop(huffman_entries(fr))
    IN  IF heap = {} THEN Raise("IndexError")
        ELSE LET last == CHOOSE x \in heap : TRUE
             IN  Return(sorted_pairs(Elems(last.pairs)))

\* ======================================================= activity_selection
\* zip(start, finish)
zip(xs, ys) == [k \in 1..min(Len(xs), Len(ys)) |-> <<xs[k], ys[k]>>]

\* sorted(..., key=lambda x: x[1]): stable, so an activity goes behind every
\* activity already placed whose finish is not later
RECURSIVE insert_by_finish(_, _)
insert_by_finish(placed, x) ==
    IF placed = <<>> THEN <<x>>
    ELSE IF x[2] < placed[Len(placed)][2]
         THEN Append(insert_by_finish(SubSeq(placed, 1, Len(placed) - 1), x),
                     placed[Len(placed)])
         ELSE Append(placed, x)

RECURSIVE sorted_by_finish(_)
sorted_by_finish(acts) ==
    IF acts = <<>> THEN <<>>
    ELSE insert_by_finish(sorted_by_finish(SubSeq(acts, 1, Len(acts) - 1)),
                          acts[Len(acts)])

\* the for loop, i in range(1, len(activities))
RECURSIVE activity_loop(_, _, _)
activity_loop(activities, i, chosen) ==
    IF i >= Len(activities) THEN chosen
    ELSE IF At(activities, i)[1] >= chosen[Len(chosen)][2]
         THEN activity_loop(activities, i + 1, Append(chosen, At(activities, i)))
         ELSE activity_loop(activities, i + 1, chosen)

\* activities[0] of an empty list raises IndexError
activity_selection(start, finish) ==
    LET activities == sorted_by_finish(zip(start, finish))
    IN  IF activities = <<>> THEN Raise("IndexError")
        ELSE Return(activity_loop(activities, 1, <<At(activities, 0)>>))

\* ------------------------------------------------ the greedy state machine
\* The caller has either a frequency table or a list of activities.
FreqTables ==
    {fr \in SeqsUpTo(Symbols \X SymbolWeights, MaxSymbols) :
        \A i, j \in 1..Len(fr) : i # j => fr[i][1] # fr[j][1]}

GreedyInit ==
    /\ SortIdle /\ SearchIdle /\ BSTEmpty /\ HeapsEmpty /\ GraphEmpty /\ StringIdle
    /\ StackQueueEmpty /\ HashTableIdle /\ PuzzleIdle /\ BubbleIdle
    /\ codes = NotRun
    /\ selected = NotRun
    /\ \/ /\ freq \in FreqTables
          /\ act_start = <<>> /\ act_finish = <<>>
       \/ /\ freq = <<>>
          /\ \E n \in 0..MaxActivities :
                /\ act_start \in [1..n -> Times]
                /\ act_finish \in [1..n -> Times]

GreedyFrame ==
    UNCHANGED <<sortVars, searchVars, bstVars, heapVars, graphVars, stringVars,
                stackVars, hashVars, puzzleVars, bubble_run,
                freq, act_start, act_finish>>

CallHuffmanCoding ==
    /\ codes = NotRun
    /\ codes' = huffman_coding(freq)
    /\ UNCHANGED selected
    /\ GreedyFrame

CallActivitySelection ==
    /\ selected = NotRun
    /\ selected' = activity_selection(act_start, act_finish)
    /\ UNCHANGED codes
    /\ GreedyFrame

GreedyNext ==
    \/ CallHuffmanCoding
    \/ CallActivitySelection

SpecGreedy == GreedyInit /\ [][GreedyNext]_vars

\* C23: for every frequency table with at least two distinct symbols and
\* positive weights, huffman_coding assigns every symbol exactly one non-empty
\* code over {0,1}, and no symbol's code is a prefix of another symbol's code.
IsPrefix(c, d) == Len(c) <= Len(d) /\ SubSeq(d, 1, Len(c)) = c

C23_HuffmanPrefixFree ==
    (codes # NotRun /\ Len(freq) >= 2) =>
        /\ codes.exc = "none"
        /\ Len(codes.ret) = Len(freq)
        /\ {codes.ret[k][1] : k \in 1..Len(codes.ret)} = {freq[k][1] : k \in 1..Len(freq)}
        /\ \A k \in 1..Len(codes.ret) :
              /\ codes.ret[k][2] # <<>>
              /\ Elems(codes.ret[k][2]) \subseteq {"0", "1"}
        /\ \A j, k \in 1..Len(codes.ret) :
              j # k => ~IsPrefix(codes.ret[j][2], codes.ret[k][2])

\* three symbols, two of them of equal weight, have codes of lengths 1, 2, 2
C23_Witness ==
    /\ Len(freq) = 3
    /\ \E i, j \in 1..3 : i # j /\ freq[i][2] = freq[j][2]
    /\ codes # NotRun
    /\ codes.exc = "none"
    /\ Len(codes.ret[1][2]) = 1
    /\ Len(codes.ret[2][2]) = 2
    /\ Len(codes.ret[3][2]) = 2

\* C24: for every non-empty list of activities with start <= finish,
\* activity_selection returns activities that are pairwise compatible, each
\* selected one starting at or after the previous selected one finishes, and
\* as many of them as any set of pairwise compatible activities has.
Compatible(a, b) == a[1] >= b[2] \/ b[1] >= a[2]

CompatibleSets(acts) ==
    {I \in SUBSET (1..Len(acts)) :
        \A i, j \in I : i # j => Compatible(acts[i], acts[j])}

MostCompatible(acts) ==
    LET sizes == {Cardinality(I) : I \in CompatibleSets(acts)}
    IN  CHOOSE n \in sizes : \A m \in sizes : m <= n

C24_ActivitySelectionOptimal ==
    LET acts == zip(act_start, act_finish)
    IN  (/\ selected # NotRun
         /\ acts # <<>>
         /\ \A k \in 1..Len(acts) : acts[k][1] <= acts[k][2]) =>
            /\ selected.exc = "none"
            /\ \A k \in 1..(Len(selected.ret) - 1) :
                  selected.ret[k + 1][1] >= selected.ret[k][2]
            /\ Len(selected.ret) = MostCompatible(acts)

\* ================================================== the passes of bubble_sort
\* the outer loop as it would be without the break: every i in range(n) runs
RECURSIVE bubble_passes_no_break(_, _)
bubble_passes_no_break(a, i) ==
    IF i >= Len(a) THEN <<>>
    ELSE LET p == bubble_pass(a, 0, Len(a) - i - 1, FALSE)
         IN  <<p>> \o bubble_passes_no_break(p.arr, i + 1)

\* the outer loop, i in range(n): the list and the swapped flag at the end of
\* each pass that is executed
RECURSIVE bubble_passes(_, _)
bubble_passes(a, i) ==
    IF i >= Len(a) THEN <<>>
    ELSE LET p == bubble_pass(a, 0, Len(a) - i - 1, FALSE)
         IN  IF ~p.swapped THEN <<p>> ELSE <<p>> \o bubble_passes(p.arr, i + 1)

BubbleInit ==
    /\ arr \in SeqsUpTo(Values, MaxLen)
    /\ results = [f \in AllSorts |-> NotRun]
    /\ bubble_run = NotRun
    /\ SearchIdle /\ BSTEmpty /\ HeapsEmpty /\ GraphEmpty /\ StringIdle
    /\ StackQueueEmpty /\ HashTableIdle /\ PuzzleIdle /\ GreedyIdle

RunBubbleSort ==
    /\ bubble_run = NotRun
    /\ bubble_run' = Return(bubble_passes(arr, 0))
    /\ results' = [results EXCEPT !["bubble_sort"] = Return(bubble_sort(arr))]
    /\ UNCHANGED <<arr, searchVars, bstVars, heapVars, graphVars, stringVars,
                   stackVars, hashVars, puzzleVars, greedyVars>>

BubbleNext == RunBubbleSort

SpecBubble == BubbleInit /\ [][BubbleNext]_vars

\* the array bubble_sort holds when its outer loop is left
AtExit ==
    IF bubble_run.ret = <<>> THEN arr
    ELSE bubble_run.ret[Len(bubble_run.ret)].arr

\* C26 (as stated): bubble_sort stops after the first full pass without a
\* swap, so that no pass follows a swap-free pass, an already-sorted input of
\* any length, the empty one included, takes exactly one pass, and the array
\* is sorted when the loop is left.
C26_OnePassOnAnySorted ==
    bubble_run # NotRun =>
        /\ \A k \in 1..(Len(bubble_run.ret) - 1) : bubble_run.ret[k].swapped
        /\ IsSorted(arr) => Len(bubble_run.ret) = 1
        /\ IsSorted(AtExit) /\ results["bubble_sort"] = Return(AtExit)

\* C26: bubble_sort stops after the first full pass without a swap: no pass
\* follows a swap-free pass, an already-sorted non-empty input takes exactly
\* one pass, the empty input takes none, and the array is sorted when the
\* loop is left, which happens by the early exit for every non-empty input.
C26_EarlyExit ==
    bubble_run # NotRun =>
        /\ \A k \in 1..(Len(bubble_run.ret) - 1) : bubble_run.ret[k].swapped
        /\ (IsSorted(arr) /\ arr # <<>>) => Len(bubble_run.ret) = 1
        /\ arr = <<>> <=> bubble_run.ret = <<>>
        /\ arr # <<>> => ~bubble_run.ret[Len(bubble_run.ret)].swapped
        /\ IsSorted(AtExit) /\ results["bubble_sort"] = Return(AtExit)

\* a descending list of full length: every pass but the last swaps, and the
\* last of its MaxLen passes, which compares nothing, ends the loop
C26_Witness ==
    /\ bubble_run # NotRun
    /\ Len(arr) = MaxLen
    /\ \A i \in 1..(Len(arr) - 1) : arr[i] > arr[i + 1]
    /\ Len(bubble_run.ret) = MaxLen
    /\ ~bubble_run.ret[MaxLen].swapped

====
